---- MODULE Spec2Model ----
(***************************************************************************)
(* A model of the go-sse change-broadcast service: the path-expression     *)
(* engine (internal/query), the memory-resident store (internal/store)     *)
(* and the SSE broadcast hub with its subscribers (internal/sse).          *)
(*                                                                         *)
(* Go strings are modelled as sequences of one-character strings, so that  *)
(* strings.HasPrefix, strings.Split and the regular expressions of the     *)
(* source act on characters as they do in the program.  JSON values        *)
(* (interface{}) are tagged records:                                       *)
(*   [t |-> "null"], [t |-> "str", s |-> chars], [t |-> "num", n |-> int], *)
(*   [t |-> "bool", b |-> BOOLEAN], [t |-> "arr", a |-> tuple],            *)
(*   [t |-> "map", m |-> function from key strings to values].             *)
(***************************************************************************)
EXTENDS Integers, Sequences, FiniteSets, TLC

(***************************************************************************)
(* Bounds of the model.                                                    *)
(***************************************************************************)
\* capacity of a subscriber's MessageChan in the model (100 in client.go)
MaxBuffer == 2
\* maxClients of the hub in the model (10000 in server.go)
MaxClients == 2
\* number of BroadcastEvent calls the API layer makes
MaxBroadcasts == 2
\* number of keep-alive ticks that fire, over all delivery tasks
MaxTicks == 1

(***************************************************************************)
(* Strings                                                                 *)
(***************************************************************************)
Digits == {"0", "1", "2", "3", "4", "5", "6", "7", "8", "9"}
Letters == {"a", "b", "c", "d", "e", "f", "g", "i", "k", "l", "n", "o", "p", "r", "s",
            "t", "u", "w", "x", "y", "z", "X"}
Alphabet == Digits \cup Letters \cup {".", "[", "]", "*", "=", " ", "_", "<", ">"}
\* \w of the regexp package
WordChars == Digits \cup Letters \cup {"_"}

Min(S) == CHOOSE x \in S : \A y \in S : x <= y

Last(seq) == seq[Len(seq)]

HasPrefix(s, prefix) ==
    Len(prefix) <= Len(s) /\ SubSeq(s, 1, Len(prefix)) = prefix

Occurrences(s, sub) ==
    {i \in 1..(Len(s) - Len(sub) + 1) : SubSeq(s, i, i + Len(sub) - 1) = sub}

Contains(s, sub) == Occurrences(s, sub) # {}

\* strings.Replace(s, old, "", 1)
ReplaceFirst(s, old) ==
    IF Occurrences(s, old) = {} THEN s
    ELSE LET i == Min(Occurrences(s, old))
         IN SubSeq(s, 1, i - 1) \o SubSeq(s, i + Len(old), Len(s))

\* strings.TrimPrefix
TrimPrefix(s, prefix) ==
    IF HasPrefix(s, prefix) THEN SubSeq(s, Len(prefix) + 1, Len(s)) ELSE s

RECURSIVE TrimLeft(_)
TrimLeft(s) == IF Len(s) > 0 /\ s[1] = " " THEN TrimLeft(Tail(s)) ELSE s

RECURSIVE TrimRight(_)
TrimRight(s) ==
    IF Len(s) > 0 /\ s[Len(s)] = " " THEN TrimRight(SubSeq(s, 1, Len(s) - 1)) ELSE s

TrimSpace(s) == TrimRight(TrimLeft(s))

ToLower(s) == [i \in 1..Len(s) |-> IF s[i] = "X" THEN "x" ELSE s[i]]

\* strings.Split(s, "."): the pieces between the dots, empty pieces included
RECURSIVE Split(_)
Split(s) ==
    IF Occurrences(s, <<".">>) = {} THEN <<s>>
    ELSE LET i == Min(Occurrences(s, <<".">>))
         IN <<SubSeq(s, 1, i - 1)>> \o Split(SubSeq(s, i + 1, Len(s)))

\* index of the last character of the longest run of characters of class S
\* that starts at position i (i - 1 when the run is empty)
RECURSIVE RunEnd(_, _, _)
RunEnd(s, i, S) ==
    IF i <= Len(s) /\ s[i] \in S THEN RunEnd(s, i + 1, S) ELSE i - 1

\* strconv.Atoi on a string of digits
DigitValue(c) ==
    CASE c = "0" -> 0 [] c = "1" -> 1 [] c = "2" -> 2 [] c = "3" -> 3
      [] c = "4" -> 4 [] c = "5" -> 5 [] c = "6" -> 6 [] c = "7" -> 7
      [] c = "8" -> 8 [] c = "9" -> 9

RECURSIVE Atoi(_)
Atoi(s) ==
    IF Len(s) = 0 THEN 0
    ELSE 10 * Atoi(SubSeq(s, 1, Len(s) - 1)) + DigitValue(s[Len(s)])

DigitChar(n) ==
    CASE n = 0 -> "0" [] n = 1 -> "1" [] n = 2 -> "2" [] n = 3 -> "3"
      [] n = 4 -> "4" [] n = 5 -> "5" [] n = 6 -> "6" [] n = 7 -> "7"
      [] n = 8 -> "8" [] n = 9 -> "9"

RECURSIVE Itoa(_)
Itoa(n) == IF n < 10 THEN <<DigitChar(n)>> ELSE Itoa(n \div 10) \o <<DigitChar(n % 10)>>

(***************************************************************************)
(* JSON values                                                             *)
(***************************************************************************)
Null == [t |-> "null"]
Str(s) == [t |-> "str", s |-> s]
Num(n) == [t |-> "num", n |-> n]
Arr(a) == [t |-> "arr", a |-> a]
Map(m) == [t |-> "map", m |-> m]

IsMap(v) == v.t = "map"
IsArr(v) == v.t = "arr"
HasKey(v, k) == IsMap(v) /\ k \in DOMAIN v.m

\* fmt.Sprintf("%v", value).  A slice or a map prints with brackets, which
\* no predicate value can contain, so only the bracket matters for them.
FmtV(v) ==
    CASE v.t = "str" -> v.s
      [] v.t = "num" -> Itoa(v.n)
      [] v.t = "bool" -> IF v.b THEN <<"t", "r", "u", "e">>
                                 ELSE <<"f", "a", "l", "s", "e">>
      [] v.t = "null" -> <<"<", "n", "i", "l", ">">>
      [] v.t = "arr" -> <<"[", "]">>
      [] v.t = "map" -> <<"[", "]">>

(***************************************************************************)
(* internal/query: Filter                                                  *)
(***************************************************************************)
KeyClass == Alphabet \ {"=", "[", "]"}
ValueClass == Alphabet \ {"[", "]"}

\* one match of the regular expression \[([^=\[\]]+)=([^\[\]]+)\] at position i
ConditionAt(s, i) ==
    LET ke == RunEnd(s, i + 1, KeyClass)
        ve == RunEnd(s, ke + 2, ValueClass)
    IN IF /\ i <= Len(s) /\ s[i] = "["
          /\ ke >= i + 1
          /\ ke + 1 <= Len(s) /\ s[ke + 1] = "="
          /\ ve >= ke + 2
          /\ ve + 1 <= Len(s) /\ s[ve + 1] = "]"
       THEN [ok |-> TRUE, text |-> SubSeq(s, i, ve + 1), last |-> ve + 1,
             Key |-> SubSeq(s, i + 1, ke), Value |-> SubSeq(s, ke + 2, ve)]
       ELSE [ok |-> FALSE]

\* re.FindAllStringSubmatch(expression, -1): leftmost matches, left to right
RECURSIVE FindAllConditions(_, _)
FindAllConditions(s, i) ==
    IF i > Len(s) THEN <<>>
    ELSE LET m == ConditionAt(s, i)
         IN IF m.ok THEN <<m>> \o FindAllConditions(s, m.last + 1)
            ELSE FindAllConditions(s, i + 1)

RECURSIVE RemoveAll(_, _)
RemoveAll(path, matches) ==
    IF matches = <<>> THEN path
    ELSE RemoveAll(ReplaceFirst(path, Head(matches).text), Tail(matches))

parseKeyValueConditions(expression) ==
    LET matches == FindAllConditions(expression, 1)
    IN [Path |-> RemoveAll(expression, matches),
        Conditions |-> [i \in 1..Len(matches) |->
                          [Key |-> TrimSpace(matches[i].Key),
                           Value |-> TrimSpace(matches[i].Value)]]]

NewFilter(expression) ==
    LET parsed == parseKeyValueConditions(expression)
    IN [Expression |-> expression, Path |-> parsed.Path,
        Conditions |-> parsed.Conditions]

\* regexp.QuoteMeta(path) with each \[\*\] replaced by \[\d+\]: every
\* character stands for itself except the wildcard, which stands for an index
RECURSIVE pathToRegexPattern(_)
pathToRegexPattern(path) ==
    IF path = <<>> THEN <<>>
    ELSE IF HasPrefix(path, <<"[", "*", "]">>)
         THEN <<"INDEX">> \o pathToRegexPattern(SubSeq(path, 4, Len(path)))
         ELSE <<Head(path)>> \o pathToRegexPattern(Tail(path))

\* re.MatchString of the anchored pattern
RECURSIVE MatchString(_, _)
MatchString(pattern, s) ==
    IF pattern = <<>> THEN s = <<>>
    ELSE IF Head(pattern) = "INDEX"
         THEN LET de == RunEnd(s, 2, Digits)
              IN /\ Len(s) >= 3 /\ s[1] = "["
                 /\ de >= 2
                 /\ de + 1 <= Len(s) /\ s[de + 1] = "]"
                 /\ MatchString(Tail(pattern), SubSeq(s, de + 2, Len(s)))
         ELSE s # <<>> /\ Head(s) = Head(pattern)
              /\ MatchString(Tail(pattern), Tail(s))

DataPrefix == <<".", "d", "a", "t", "a", ".">>
DataKey == <<"d", "a", "t", "a">>

\* the comparison of one condition in Filter.matchesConditions: a string
\* value is assigned and never compared; any other value compares the
\* lower-cased condition value with the condition value itself
conditionHolds(m, condition) ==
    /\ condition.Key \in DOMAIN m
    /\ \/ m[condition.Key].t = "str"
       \/ TrimSpace(ToLower(condition.Value)) = condition.Value

matchesConditions(f, value) ==
    IF Len(f.Conditions) = 0 THEN TRUE
    ELSE LET fieldName == TrimPrefix(f.Path, DataPrefix)
             navigate == HasPrefix(f.Path, DataPrefix)
             found == /\ IsMap(value)
                      /\ HasKey(value, DataKey)
                      /\ IsMap(value.m[DataKey])
                      /\ fieldName \in DOMAIN value.m[DataKey].m
             dataToCheck == IF navigate THEN value.m[DataKey].m[fieldName] ELSE value
         IN IF navigate /\ ~found THEN FALSE
            ELSE IF IsArr(dataToCheck)
                 THEN \E i \in 1..Len(dataToCheck.a) :
                         /\ IsMap(dataToCheck.a[i])
                         /\ \A c \in 1..Len(f.Conditions) :
                               conditionHolds(dataToCheck.a[i].m, f.Conditions[c])
                 ELSE IF IsMap(dataToCheck)
                      THEN \A c \in 1..Len(f.Conditions) :
                              conditionHolds(dataToCheck.m, f.Conditions[c])
                      ELSE FALSE

IsMatch(f, path, value) ==
    IF path = f.Path THEN matchesConditions(f, value)
    ELSE IF HasPrefix(f.Path, path \o <<".">>) \/ HasPrefix(f.Path, path \o <<"[">>)
         THEN matchesConditions(f, value)
    ELSE IF HasPrefix(path, f.Path \o <<".">>) \/ HasPrefix(path, f.Path \o <<"[">>)
         THEN matchesConditions(f, value)
    ELSE IF Contains(f.Path, <<"[", "*", "]">>)
         THEN /\ MatchString(pathToRegexPattern(f.Path), path)
              /\ matchesConditions(f, value)
    ELSE FALSE

(***************************************************************************)
(* internal/query: Parser and Matcher                                      *)
(***************************************************************************)
PropertyClass == Alphabet \ {".", "[", "]"}

\* one match of pathRegex  \.[^.\[\]]+|\[\d+\]|\[\*\]  at position i
SegmentAt(s, i) ==
    LET pe == RunEnd(s, i + 1, PropertyClass)
        de == RunEnd(s, i + 1, Digits)
    IN IF i <= Len(s) /\ s[i] = "." /\ pe >= i + 1
       THEN [ok |-> TRUE, text |-> SubSeq(s, i, pe), last |-> pe]
       ELSE IF /\ i <= Len(s) /\ s[i] = "[" /\ de >= i + 1
               /\ de + 1 <= Len(s) /\ s[de + 1] = "]"
            THEN [ok |-> TRUE, text |-> SubSeq(s, i, de + 1), last |-> de + 1]
            ELSE IF i + 2 <= Len(s) /\ SubSeq(s, i, i + 2) = <<"[", "*", "]">>
                 THEN [ok |-> TRUE, text |-> SubSeq(s, i, i + 2), last |-> i + 2]
                 ELSE [ok |-> FALSE]

\* pathRegex.FindAllString(path, -1)
RECURSIVE FindAllSegments(_, _)
FindAllSegments(s, i) ==
    IF i > Len(s) THEN <<>>
    ELSE LET m == SegmentAt(s, i)
         IN IF m.ok THEN <<m.text>> \o FindAllSegments(s, m.last + 1)
            ELSE FindAllSegments(s, i + 1)

RootSegment == [Type |-> "Root", Value |-> <<>>, Index |-> -1]

\* the classification of one match by propertyRegex, arrayIndexRegex and
\* wildcardRegex
ParseSegment(match) ==
    IF /\ match[1] = "." /\ Len(match) >= 2
       /\ \A j \in 2..Len(match) : match[j] \in WordChars
    THEN [ok |-> TRUE,
          seg |-> [Type |-> "Property", Value |-> Tail(match), Index |-> -1]]
    ELSE IF /\ match[1] = "[" /\ Len(match) >= 3 /\ match[Len(match)] = "]"
            /\ \A j \in 2..(Len(match) - 1) : match[j] \in Digits
         THEN [ok |-> TRUE,
               seg |-> [Type |-> "Index", Value |-> <<>>,
                        Index |-> Atoi(SubSeq(match, 2, Len(match) - 1))]]
         ELSE IF match = <<"[", "*", "]">>
              THEN [ok |-> TRUE,
                    seg |-> [Type |-> "Wildcard", Value |-> <<>>, Index |-> -1]]
              ELSE [ok |-> FALSE]

\* Parser.Parse: the leading dot is removed before pathRegex is applied
Parse(path) ==
    IF path = <<>> \/ path = <<".">>
    THEN [err |-> "nil", segments |-> <<RootSegment>>]
    ELSE IF ~HasPrefix(path, <<".">>)
         THEN [err |-> "path must start with a dot"]
         ELSE LET matches == FindAllSegments(Tail(path), 1)
                  parsed == [i \in 1..Len(matches) |-> ParseSegment(matches[i])]
              IN IF \E i \in 1..Len(matches) : ~parsed[i].ok
                 THEN [err |-> "invalid path segment"]
                 ELSE [err |-> "nil",
                       segments |-> <<RootSegment>> \o
                                    [i \in 1..Len(matches) |-> parsed[i].seg]]

\* A Go map or slice is a reference.  Matcher.Set can store a container in a
\* slot below itself (see setValueBySegments); such a slot holds
\* [t |-> "ref", up |-> k]: the container k levels above the slot.  chain is
\* the chain of containers from the top of the walked value down to the
\* parent of data, used only to follow such a reference.
Ref(k) == [t |-> "ref", up |-> k]

Deref(data, chain) ==
    IF data.t = "ref"
    THEN [node |-> chain[Len(chain) - data.up + 1],
          chain |-> SubSeq(chain, 1, Len(chain) - data.up)]
    ELSE [node |-> data, chain |-> chain]

RECURSIVE navigateSegments(_, _, _, _)
navigateSegments(rawData, segments, index, rawChain) ==
    LET data == Deref(rawData, rawChain).node
        chain == Deref(rawData, rawChain).chain
    IN IF index > Len(segments) THEN [err |-> "nil", v |-> data]
       ELSE LET segment == segments[index]
            IN CASE segment.Type = "Property" ->
                    IF ~IsMap(data) THEN [err |-> "ErrPathNotFound"]
                    ELSE IF segment.Value \notin DOMAIN data.m
                         THEN [err |-> "ErrPathNotFound"]
                         ELSE navigateSegments(data.m[segment.Value], segments,
                                               index + 1, Append(chain, data))
              [] segment.Type = "Index" ->
                    IF ~IsArr(data) THEN [err |-> "ErrPathNotFound"]
                    ELSE IF segment.Index < 0 \/ segment.Index >= Len(data.a)
                         THEN [err |-> "ErrPathNotFound"]
                         ELSE navigateSegments(data.a[segment.Index + 1], segments,
                                               index + 1, Append(chain, data))
              [] segment.Type = "Wildcard" ->
                    [err |-> "wildcards not supported in Get operation"]
              [] OTHER -> [err |-> "ErrInvalidPath"]

\* Matcher.Get; segments are numbered from 1 here, so the segment after the
\* root is number 2
MatcherGet(data, path) ==
    LET parsed == Parse(path)
    IN IF parsed.err # "nil" THEN [err |-> parsed.err]
       ELSE navigateSegments(data, parsed.segments, 2, <<>>)

\* string(i) of an int: the one character with code point i, not the decimal
\* digits of i; the characters 0, 1, 2, ... are control characters
RuneString(i) ==
    <<CASE i = 0 -> "NUL" [] i = 1 -> "SOH" [] i = 2 -> "STX" [] OTHER -> "CTRL">>

\* Matcher.matchSegments: the results appended, in order.  rawChain is as in
\* navigateSegments.
RECURSIVE matchSegments(_, _, _, _, _)
RECURSIVE matchItems(_, _, _, _, _, _)
matchSegments(rawData, segments, index, currentPath, rawChain) ==
    LET data == Deref(rawData, rawChain).node
        chain == Deref(rawData, rawChain).chain
    IN IF index > Len(segments) THEN <<[Path |-> currentPath, Value |-> data]>>
       ELSE LET segment == segments[index]
            IN CASE segment.Type = "Property" ->
                    IF ~IsMap(data) THEN <<>>
                    ELSE IF segment.Value \notin DOMAIN data.m THEN <<>>
                         ELSE matchSegments(data.m[segment.Value], segments, index + 1,
                                            currentPath \o <<".">> \o segment.Value,
                                            Append(chain, data))
                 [] segment.Type = "Index" ->
                    IF ~IsArr(data) THEN <<>>
                    ELSE IF segment.Index < 0 \/ segment.Index >= Len(data.a) THEN <<>>
                         ELSE matchSegments(data.a[segment.Index + 1], segments, index + 1,
                                            currentPath \o <<"[">> \o
                                               RuneString(segment.Index) \o <<"]">>,
                                            Append(chain, data))
                 [] segment.Type = "Wildcard" ->
                    IF ~IsArr(data) THEN <<>>
                    ELSE matchItems(data, segments, index, currentPath, chain, 0)
                 [] OTHER -> <<>>

\* the loop of the Wildcard case, from item i on
matchItems(data, segments, index, currentPath, chain, i) ==
    IF i >= Len(data.a) THEN <<>>
    ELSE matchSegments(data.a[i + 1], segments, index + 1,
                       currentPath \o <<"[">> \o RuneString(i) \o <<"]">>,
                       Append(chain, data))
         \o matchItems(data, segments, index, currentPath, chain, i + 1)

\* Matcher.Match
MatcherMatch(data, path) ==
    LET parsed == Parse(path)
    IN IF parsed.err # "nil" THEN [err |-> parsed.err, results |-> <<>>]
       ELSE [err |-> "nil",
             results |-> matchSegments(data, parsed.segments, 2, <<>>, <<>>)]

Put(m, k, v) == [x \in DOMAIN m \cup {k} |-> IF x = k THEN v ELSE m[x]]

\* the value as seen from one container level further down
Below(value) == IF value.t = "ref" THEN Ref(value.up + 1) ELSE value

\* Matcher.setFinalSegment; data is returned as the call leaves it
setFinalSegment(data, segment, value) ==
    CASE segment.Type = "Property" ->
            IF ~IsMap(data) THEN [err |-> "ErrPathNotFound", data |-> data]
            ELSE [err |-> "nil", data |-> Map(Put(data.m, segment.Value, Below(value)))]
      [] segment.Type = "Index" ->
            IF ~IsArr(data) THEN [err |-> "ErrPathNotFound", data |-> data]
            ELSE IF segment.Index < 0 \/ segment.Index >= Len(data.a)
                 THEN [err |-> "ErrPathNotFound", data |-> data]
                 ELSE [err |-> "nil",
                       data |-> Arr([data.a EXCEPT ![segment.Index + 1] = Below(value)])]
      [] segment.Type = "Wildcard" ->
            [err |-> "wildcards not supported in Set operation", data |-> data]
      [] OTHER -> [err |-> "ErrInvalidPath", data |-> data]

\* Matcher.setValueBySegments.  In the Property case the source declares
\* "value, exists := mapData[segment.Value]", which hides the parameter
\* value: the recursive call passes the child container as the value to
\* store (Ref(0): the container the call is made on).  A path of one segment
\* (the root only) indexes segments out of range: "panic".  data is returned
\* as the call leaves it, also when it fails.
RECURSIVE setValueBySegments(_, _, _, _)
setValueBySegments(data, segments, index, value) ==
    IF index = Len(segments) THEN setFinalSegment(data, segments[index], value)
    ELSE IF index > Len(segments) THEN [err |-> "panic", data |-> data]
    ELSE LET segment == segments[index]
             next == segments[index + 1]
         IN CASE segment.Type = "Property" ->
                 IF ~IsMap(data) THEN [err |-> "ErrPathNotFound", data |-> data]
                 ELSE LET exists == segment.Value \in DOMAIN data.m
                          created == IF next.Type = "Property" THEN Map(<<>>)
                                     ELSE Arr([i \in 1..(next.Index + 1) |-> Null])
                          child == IF exists THEN data.m[segment.Value] ELSE created
                          r == setValueBySegments(child, segments, index + 1, Ref(0))
                      IN IF ~exists /\ next.Type \notin {"Property", "Index"}
                         THEN [err |-> "ErrPathNotFound", data |-> data]
                         ELSE [err |-> r.err,
                               data |-> Map(Put(data.m, segment.Value, r.data))]
              [] segment.Type = "Index" ->
                 IF ~IsArr(data) THEN [err |-> "ErrPathNotFound", data |-> data]
                 ELSE IF segment.Index < 0 \/ segment.Index >= Len(data.a)
                      THEN [err |-> "ErrPathNotFound", data |-> data]
                      ELSE LET r == setValueBySegments(data.a[segment.Index + 1],
                                                       segments, index + 1, Below(value))
                           IN [err |-> r.err,
                               data |-> Arr([data.a EXCEPT ![segment.Index + 1] = r.data])]
              [] segment.Type = "Wildcard" ->
                 [err |-> "wildcards not supported in Set operation", data |-> data]
              [] OTHER -> [err |-> "ErrInvalidPath", data |-> data]

MatcherSet(data, path, value) ==
    LET parsed == Parse(path)
    IN IF parsed.err # "nil" THEN [err |-> parsed.err, data |-> data]
       ELSE setValueBySegments(data, parsed.segments, 2, value)

\* The container that Delete works on is found by the steps of canon from
\* the top of the tree; canon never passes a reference, so the change made
\* to a container reached through a reference is made to the container
\* itself.
RECURSIVE NodeAt(_, _)
NodeAt(data, canon) ==
    IF canon = <<>> THEN data
    ELSE IF Head(canon).Type = "Property"
         THEN NodeAt(data.m[Head(canon).Value], Tail(canon))
         ELSE NodeAt(data.a[Head(canon).Index + 1], Tail(canon))

RECURSIVE ReplaceAt(_, _, _)
ReplaceAt(data, canon, node) ==
    IF canon = <<>> THEN node
    ELSE IF Head(canon).Type = "Property"
         THEN Map([data.m EXCEPT ![Head(canon).Value] =
                      ReplaceAt(@, Tail(canon), node)])
         ELSE Arr([data.a EXCEPT ![Head(canon).Index + 1] =
                      ReplaceAt(@, Tail(canon), node)])

\* the steps to the child in the slot that segment names in the container at
\* canon: a reference leads back to a container above the slot
StepInto(canon, segment, child) ==
    IF child.t = "ref" THEN SubSeq(canon, 1, Len(canon) - (child.up - 1))
    ELSE Append(canon, segment)

\* Matcher.deleteFinalSegment; data is returned as the call leaves it
deleteFinalSegment(data, segment) ==
    CASE segment.Type = "Property" ->
            IF ~IsMap(data) THEN [err |-> "ErrPathNotFound", data |-> data]
            ELSE IF segment.Value \notin DOMAIN data.m
                 THEN [err |-> "ErrPathNotFound", data |-> data]
                 ELSE [err |-> "nil",
                       data |-> Map([k \in DOMAIN data.m \ {segment.Value} |-> data.m[k]])]
      [] segment.Type = "Index" ->
            IF ~IsArr(data) THEN [err |-> "ErrPathNotFound", data |-> data]
            ELSE IF segment.Index < 0 \/ segment.Index >= Len(data.a)
                 THEN [err |-> "ErrPathNotFound", data |-> data]
                 ELSE [err |-> "nil",
                       data |-> Arr([data.a EXCEPT ![segment.Index + 1] = Null])]
      [] segment.Type = "Wildcard" ->
            [err |-> "wildcards not supported in Delete operation", data |-> data]
      [] OTHER -> [err |-> "ErrInvalidPath", data |-> data]

\* Matcher.deleteBySegments on the container at canon of the tree root; the
\* tree is returned as the call leaves it.  A path of one segment (the root
\* only) indexes segments out of range: "panic".
RECURSIVE deleteBySegments(_, _, _, _)
deleteBySegments(root, canon, segments, index) ==
    LET data == NodeAt(root, canon)
    IN IF index = Len(segments)
       THEN LET r == deleteFinalSegment(data, segments[index])
            IN [err |-> r.err, data |-> ReplaceAt(root, canon, r.data)]
       ELSE IF index > Len(segments) THEN [err |-> "panic", data |-> root]
       ELSE LET segment == segments[index]
            IN CASE segment.Type = "Property" ->
                    IF ~IsMap(data) THEN [err |-> "ErrPathNotFound", data |-> root]
                    ELSE IF segment.Value \notin DOMAIN data.m
                         THEN [err |-> "ErrPathNotFound", data |-> root]
                         ELSE deleteBySegments(
                                 root, StepInto(canon, segment, data.m[segment.Value]),
                                 segments, index + 1)
                 [] segment.Type = "Index" ->
                    IF ~IsArr(data) THEN [err |-> "ErrPathNotFound", data |-> root]
                    ELSE IF segment.Index < 0 \/ segment.Index >= Len(data.a)
                         THEN [err |-> "ErrPathNotFound", data |-> root]
                         ELSE deleteBySegments(
                                 root, StepInto(canon, segment, data.a[segment.Index + 1]),
                                 segments, index + 1)
                 [] segment.Type = "Wildcard" ->
                    [err |-> "wildcards not supported in Delete operation", data |-> root]
                 [] OTHER -> [err |-> "ErrInvalidPath", data |-> root]

MatcherDelete(data, path) ==
    LET parsed == Parse(path)
    IN IF parsed.err # "nil" THEN [err |-> parsed.err, data |-> data]
       ELSE deleteBySegments(data, <<>>, parsed.segments, 2)

\* a value that contains a reference to a container above it is cyclic:
\* json.Marshal fails on it and fmt's %v does not return
RECURSIVE Cyclic(_)
Cyclic(v) ==
    CASE v.t = "ref" -> TRUE
      [] v.t = "arr" -> \E i \in 1..Len(v.a) : Cyclic(v.a[i])
      [] v.t = "map" -> \E k \in DOMAIN v.m : Cyclic(v.m[k])
      [] OTHER -> FALSE

(***************************************************************************)
(* internal/store: KVStore                                                 *)
(***************************************************************************)
\* KVStore.applyKeyValueFiltering: a sequence is narrowed to the mappings
\* that satisfy every condition, anything else is returned as it is
storeKeyValueFiltering(data, conditions) ==
    IF Len(conditions) = 0 \/ data = Null \/ ~IsArr(data) THEN data
    ELSE LET valid == {c \in 1..Len(conditions) :
                          ~Contains(conditions[c].Value, <<"=">>)}
             \* keyValuePairs is a map: a later condition replaces an earlier
             \* one with the same key
             pairs == {c \in valid : \A d \in valid :
                          conditions[d].Key = conditions[c].Key => d <= c}
             keep(item) ==
                 /\ IsMap(item)
                 /\ \A c \in pairs :
                       /\ conditions[c].Key \in DOMAIN item.m
                       /\ TrimSpace(FmtV(item.m[conditions[c].Key])) = conditions[c].Value
         IN Arr(SelectSeq(data.a, keep))

\* KVStore.Get
KVStoreGet(data, path) ==
    LET parsed == parseKeyValueConditions(path)
        hasBrackets == Contains(path, <<"[">>) /\ Contains(path, <<"=">>)
                          /\ Contains(path, <<"]">>)
        cleanPath == IF hasBrackets THEN parsed.Path ELSE path
        conditions == IF hasBrackets THEN parsed.Conditions ELSE <<>>
        targetField == Last(Split(cleanPath))
        special == /\ \/ HasPrefix(cleanPath, DataPrefix)
                      \/ HasPrefix(cleanPath, Tail(DataPrefix))
                   /\ HasKey(data, DataKey) /\ IsMap(data.m[DataKey])
                   /\ targetField \in DOMAIN data.m[DataKey].m
        fieldValue == Deref(data.m[DataKey].m[targetField],
                            <<data, data.m[DataKey]>>).node
        result == MatcherGet(data, cleanPath)
    IN IF special
       THEN [err |-> "nil", v |-> storeKeyValueFiltering(fieldValue, conditions)]
       ELSE IF cleanPath = <<>> \/ cleanPath = <<".">>
            THEN [err |-> "nil", v |-> data]
            ELSE IF result.err # "nil" THEN [err |-> result.err]
                 ELSE [err |-> "nil", v |-> storeKeyValueFiltering(result.v, conditions)]

\* a Set that replaces the root with any value
KVStoreSetAny(data, path, value) ==
    IF path = <<>> \/ path = <<".">> THEN [err |-> "nil", data |-> value]
    ELSE MatcherSet(data, path, value)

\* KVStore.Set (and SetFromJSON once the body is decoded)
KVStoreSet(data, path, value) ==
    IF path = <<>> \/ path = <<".">>
    THEN IF IsMap(value) THEN [err |-> "nil", data |-> value]
         ELSE [err |-> "value must be a map when setting root", data |-> data]
    ELSE MatcherSet(data, path, value)

\* KVStore.FindMatches
KVStoreFindMatches(data, path) ==
    LET parsed == parseKeyValueConditions(path)
        hasBrackets == Contains(path, <<"[">>) /\ Contains(path, <<"=">>)
                          /\ Contains(path, <<"]">>)
        cleanPath == IF hasBrackets THEN parsed.Path ELSE path
        conditions == IF hasBrackets THEN parsed.Conditions ELSE <<>>
        targetField == Last(Split(cleanPath))
        special == /\ \/ HasPrefix(cleanPath, DataPrefix)
                      \/ HasPrefix(cleanPath, Tail(DataPrefix))
                   /\ HasKey(data, DataKey) /\ IsMap(data.m[DataKey])
                   /\ targetField \in DOMAIN data.m[DataKey].m
        fieldValue == Deref(data.m[DataKey].m[targetField],
                            <<data, data.m[DataKey]>>).node
        matched == MatcherMatch(data, cleanPath)
        filtered == [i \in 1..Len(matched.results) |->
                       [Path |-> matched.results[i].Path,
                        Value |-> storeKeyValueFiltering(matched.results[i].Value,
                                                         conditions)]]
        nonEmpty(result) == ~(IsArr(result.Value) /\ Len(result.Value.a) = 0)
    IN IF special
       THEN [err |-> "nil",
             results |-> <<[Path |-> path,
                            Value |-> storeKeyValueFiltering(fieldValue, conditions)]>>]
       ELSE IF matched.err # "nil" THEN matched
            ELSE IF Len(conditions) > 0
                 THEN [err |-> "nil", results |-> SelectSeq(filtered, nonEmpty)]
                 ELSE matched

\* KVStore.Delete
KVStoreDelete(data, path) ==
    IF path = <<>> \/ path = <<".">> THEN [err |-> "nil", data |-> Map(<<>>)]
    ELSE MatcherDelete(data, path)

(***************************************************************************)
(* internal/sse: the pure parts of Client and Server                       *)
(***************************************************************************)
\* the comparison of one condition by fmt.Sprintf("%v") in
\* matchesKeyValueConditions and applyKeyValueFilters
keyValueHolds(m, condition) ==
    /\ condition.Key \in DOMAIN m
    /\ TrimSpace(FmtV(m[condition.Key])) = condition.Value

allKeyValuesHold(item, conditions) ==
    /\ IsMap(item)
    /\ \A c \in 1..Len(conditions) : keyValueHolds(item.m, conditions[c])

matchesKeyValueConditions(data, conditions) ==
    IF Len(conditions) = 0 THEN TRUE
    ELSE IF IsArr(data)
         THEN \E i \in 1..Len(data.a) : allKeyValuesHold(data.a[i], conditions)
         ELSE IF IsMap(data) THEN allKeyValuesHold(data, conditions)
              ELSE FALSE

RootPaths == {<<".">>, <<".", "d", "a", "t", "a">>, DataKey}

\* the first loop of Client.ShouldNotify for one filter: "return" with a
\* result, or fall through to the next filter
prefixDecision(filter, path, value) ==
    LET parts == Split(filter.Path)
        targetField == Last(parts)
        hasConditions == Len(filter.Conditions) > 0
        direct == IsMap(value) /\ targetField \in DOMAIN value.m
        nested == /\ IsMap(value) /\ HasKey(value, DataKey)
                  /\ IsMap(value.m[DataKey])
                  /\ targetField \in DOMAIN value.m[DataKey].m
        fieldValue == IF direct THEN value.m[targetField]
                      ELSE value.m[DataKey].m[targetField]
    IN IF ~HasPrefix(filter.Path, path) THEN [return |-> FALSE]
       ELSE IF Len(parts) > 1 /\ path \in RootPaths /\ (direct \/ nested)
            THEN [return |-> TRUE,
                  result |-> IF hasConditions
                             THEN matchesKeyValueConditions(fieldValue, filter.Conditions)
                             ELSE TRUE]
            ELSE IF ~hasConditions THEN [return |-> TRUE, result |-> TRUE]
                 ELSE [return |-> FALSE]

RECURSIVE prefixLoop(_, _, _, _)
prefixLoop(filters, i, path, value) ==
    IF i > Len(filters) THEN [return |-> FALSE]
    ELSE LET d == prefixDecision(filters[i], path, value)
         IN IF d.return THEN d ELSE prefixLoop(filters, i + 1, path, value)

ShouldNotify(filters, path, value) ==
    LET d == prefixLoop(filters, 1, path, value)
    IN IF d.return THEN d.result
       ELSE \E i \in 1..Len(filters) : IsMatch(filters[i], path, value)

applyKeyValueFilters(data, conditions) ==
    IF Len(conditions) = 0 \/ data = Null THEN [v |-> data, success |-> FALSE]
    ELSE IF IsArr(data)
         THEN LET keep(item) == allKeyValuesHold(item, conditions)
              IN [v |-> Arr(SelectSeq(data.a, keep)), success |-> TRUE]
         ELSE IF IsMap(data)
              THEN [v |-> data, success |-> allKeyValuesHold(data, conditions)]
              ELSE [v |-> data, success |-> FALSE]

\* the event payload of BroadcastEvent; an absent flag is FALSE, an absent
\* filtered_field is the empty tuple
Envelope(path, value) ==
    [path |-> path, value |-> value, filtered |-> FALSE,
     key_value_filtered |-> FALSE, filtered_field |-> <<>>]

\* value replaced by the predicate-filtered value when filtering succeeds
withConditions(env, data, filter) ==
    LET kv == applyKeyValueFilters(data, filter.Conditions)
    IN IF Len(filter.Conditions) > 0 /\ kv.success
       THEN [env EXCEPT !.value = kv.v, !.key_value_filtered = TRUE]
       ELSE env

\* the body of the filter loop of BroadcastEvent for one filter: "break"
\* with the client's payload, or go on with the next filter
narrowDecision(filter, path, value, env) ==
    LET remainingPath == SubSeq(filter.Path, Len(path) + 1, Len(filter.Path))
        extracted == MatcherGet(value, remainingPath)
        case2 == /\ HasPrefix(filter.Path, path) /\ Len(filter.Path) > Len(path)
                 /\ HasPrefix(remainingPath, <<".">>)
                 /\ extracted.err = "nil"
        case3 == HasPrefix(path, filter.Path) /\ Len(path) > Len(filter.Path)
        clientTarget == TrimPrefix(filter.Path, DataPrefix)
        case4 == /\ HasPrefix(filter.Path, DataPrefix)
                 /\ HasPrefix(path, <<".", "d", "a", "t", "a">>)
                 /\ IsMap(value) /\ HasKey(value, DataKey)
                 /\ IsMap(value.m[DataKey])
                 /\ clientTarget \in DOMAIN value.m[DataKey].m
    IN IF path = filter.Path
       THEN [break |-> TRUE,
             env |-> withConditions([env EXCEPT !.filtered = TRUE], value, filter)]
       ELSE IF case2
       THEN [break |-> TRUE,
             env |-> withConditions([env EXCEPT !.value = extracted.v,
                                                !.filtered = TRUE],
                                    extracted.v, filter)]
       ELSE IF case3
       THEN [break |-> TRUE,
             env |-> withConditions([env EXCEPT !.filtered = TRUE], value, filter)]
       ELSE IF case4
       THEN [break |-> TRUE,
             env |-> withConditions([env EXCEPT !.value = value.m[DataKey].m[clientTarget],
                                                !.filtered = TRUE],
                                    value.m[DataKey].m[clientTarget], filter)]
       ELSE [break |-> FALSE]

RECURSIVE narrowLoop(_, _, _, _, _)
narrowLoop(filters, i, path, value, env) ==
    IF i > Len(filters) THEN env
    ELSE LET d == narrowDecision(filters[i], path, value, env)
         IN IF d.break THEN d.env ELSE narrowLoop(filters, i + 1, path, value, env)

\* clientEventData of BroadcastEvent for one client
clientEventData(filters, path, value) ==
    narrowLoop(filters, 1, path, value, Envelope(path, value))

\* the filter loop at the head of Client.Send
RECURSIVE sendFilterLoop(_, _, _)
sendFilterLoop(filters, i, env) ==
    IF i > Len(filters) THEN env
    ELSE LET targetField == Last(Split(filters[i].Path))
             value == env.value
         IN IF ~IsMap(value) THEN sendFilterLoop(filters, i + 1, env)
            ELSE IF targetField \in DOMAIN value.m
                 THEN sendFilterLoop(filters, i + 1, env)
                 ELSE IF /\ HasKey(value, DataKey) /\ IsMap(value.m[DataKey])
                         /\ targetField \in DOMAIN value.m[DataKey].m
                      THEN [env EXCEPT !.value = value.m[DataKey].m[targetField],
                                       !.filtered_field = <<targetField>>]
                      ELSE sendFilterLoop(filters, i + 1, env)

\* the payload that Client.Send serializes
sendPayload(filters, env) ==
    IF env.filtered THEN sendFilterLoop(filters, 1, env) ELSE env

\* the initial_data payload of AddClient for a value found at a path
InitialEnvelope(path, value, hasConditions) ==
    [path |-> path, value |-> value, filtered |-> TRUE,
     key_value_filtered |-> hasConditions, filtered_field |-> <<>>]

\* AddClient, a root filter with conditions, one field of data: a payload
\* when the field holds a non-empty sequence which the conditions narrow
\* (kv is what applyKeyValueFilters returns for it)
rootFieldPayload(field, value, kv) ==
    IF IsArr(value) /\ Len(value.a) > 0 /\ kv.success
    THEN <<[path |-> DataPrefix \o field, value |-> kv.v, filtered |-> TRUE,
            key_value_filtered |-> TRUE, filtered_field |-> <<field>>]>>
    ELSE <<>>

\* AddClient, a root filter with conditions: the payloads of the fields of
\* data, taken in some order of the map; sent is not looked at
RECURSIVE rootFieldPayloads(_, _, _)
rootFieldPayloads(dataField, fields, filter) ==
    IF fields = {} THEN <<>>
    ELSE LET field == CHOOSE f \in fields : TRUE
         IN rootFieldPayload(field, dataField.m[field],
                             applyKeyValueFilters(dataField.m[field], filter.Conditions))
              \o rootFieldPayloads(dataField, fields \ {field}, filter)

\* AddClient, the value to send: not sent when it is an empty sequence
shouldSend(path, valueToSend, hasConditions) ==
    IF IsArr(valueToSend) /\ Len(valueToSend.a) = 0 THEN <<>>
    ELSE <<InitialEnvelope(path, valueToSend, hasConditions)>>

\* AddClient, a value found for a filter, narrowed by the conditions (kv is
\* what applyKeyValueFilters returns for it)
foundPayloads(path, value, kv, hasConditions) ==
    shouldSend(path, IF hasConditions /\ kv.success THEN kv.v ELSE value,
               hasConditions)

\* AddClient, the matches of FindMatches for a filter from the i-th on,
\* each sent unless its path is in sent
RECURSIVE matchPayloads(_, _, _, _)
\* found is what the i-th match sends; its path is in sent from then on
matchNext(found, matches, i, filter, sent) ==
    found \o matchPayloads(matches, i + 1, filter,
                           sent \cup {found[j].path : j \in 1..Len(found)})

matchPayloads(matches, i, filter, sent) ==
    IF i > Len(matches) THEN <<>>
    ELSE matchNext(IF matches[i].Path \in sent THEN <<>>
                   ELSE foundPayloads(matches[i].Path, matches[i].Value,
                                      applyKeyValueFilters(matches[i].Value,
                                                           filter.Conditions),
                                      Len(filter.Conditions) > 0),
                   matches, i, filter, sent)

\* AddClient, a filter whose direct lookup failed: pattern matching
patternPayloads(matches, filter, sent) ==
    IF matches.err = "nil" /\ Len(matches.results) > 0
    THEN matchPayloads(matches.results, 1, filter, sent)
    ELSE <<>>

\* AddClient, a filter with a path of its own: got is what store.Get
\* returns for the path
lookupPayloads(got, data, filter, sent) ==
    IF got.err # "nil"
    THEN patternPayloads(KVStoreFindMatches(data, filter.Path), filter, sent)
    ELSE IF got.v # Null /\ filter.Path \notin sent
         THEN foundPayloads(filter.Path, got.v,
                            applyKeyValueFilters(got.v, filter.Conditions),
                            Len(filter.Conditions) > 0)
         ELSE <<>>

\* AddClient, the body of the loop over client.Filters for one filter: the
\* payloads it passes to client.Send("initial_data", ...)
filterPayloads(data, rootData, filter, sent) ==
    IF filter.Path = <<".">> \/ filter.Path = <<>>
    THEN IF Len(filter.Conditions) > 0
         THEN IF IsMap(rootData) /\ HasKey(rootData, DataKey)
                    /\ IsMap(rootData.m[DataKey])
              THEN rootFieldPayloads(rootData.m[DataKey],
                                     DOMAIN rootData.m[DataKey].m, filter)
              ELSE <<>>
         ELSE <<Envelope(<<".">>, rootData)>>
    ELSE lookupPayloads(KVStoreGet(data, filter.Path), data, filter, sent)

(***************************************************************************)
(* State                                                                   *)
(***************************************************************************)
VARIABLES
    clients,      \* Server.clients: the ids in the subscriber table
    filtersOf,    \* Client.Filters of each client
    ctxDone,      \* whether Client.Ctx is cancelled
    chanClosed,   \* whether Client.MessageChan is closed
    MessageChan,  \* the frames buffered in Client.MessageChan, oldest first
    task,         \* the goroutine of Client.ProcessMessages
    sink,         \* what has been written to Client.W, oldest first
    stalled,      \* whether Write on Client.W never returns
    sendErr,      \* the error of the latest Client.Send on each client
    offered,      \* history: the frames Client.Send was called with
    accepted,     \* history: the frames Client.Send put into MessageChan
    add,          \* the calls of Server.AddClient, one per client id
    bcast,        \* the calls of Server.BroadcastEvent in progress
    broadcasts,   \* the number of BroadcastEvent calls made by the API caller
    store,        \* KVStore.data
    patch,        \* the call of Handler.HandleStoreUpdate
    crashed,      \* the process has died (fmt on a cyclic value)
    eval,         \* one evaluation of the filter pipeline on chosen inputs
    hub,          \* Server: cleanupContext, cleanupTicker, the cleanup goroutine,
                  \* the call of Shutdown, and the request contexts that ended
    calls,        \* history: the number of Client.Close calls on each client
                  \* and of Server.RemoveClient calls with its id
    LastActivity  \* Client.LastActivity of each client, against the threshold

vars == <<clients, filtersOf, ctxDone, chanClosed, MessageChan, task, sink,
          stalled, sendErr, offered, accepted, add, bcast, broadcasts, store,
          patch, crashed, eval, hub, calls, LastActivity>>

hubVars == <<clients, filtersOf, ctxDone, chanClosed, MessageChan, task, sink,
             stalled, sendErr, offered, accepted, add, bcast, broadcasts, crashed,
             hub, calls, LastActivity>>

\* one more id than the table may hold, so that a call can find it full
Ids == 1..(MaxClients + 1)
Callers == {"api", "patch"}

\* path strings used below
Root == <<".">>
Users == <<".", "u", "s", "e", "r", "s">>
User == <<".", "u", "s", "e", "r">>
Status == <<".", "s", "t", "a", "t", "u", "s">>
Data == <<".", "d", "a", "t", "a">>
Config == <<".", "c", "o", "n", "f", "i", "g">>
Idx(n) == <<"[", DigitChar(n), "]">>
Wild == <<"[", "*", "]">>
Key(path) == Tail(path)
Away == <<"a", "w", "a", "y">>
Online == <<"o", "n", "l", "i", "n", "e">>
Cond(k, v) == <<"[">> \o k \o <<"=">> \o v \o <<"]">>
StatusIs(v) == Map(Key(Status) :> Str(v))

\* NewClient: empty expressions are skipped, and a client without any
\* filter gets the default filter "."
NewClientFilters(filterExprs) ==
    LET nonEmpty(e) == e # <<>>
        exprs == SelectSeq(filterExprs, nonEmpty)
    IN IF exprs = <<>> THEN <<NewFilter(Root)>>
       ELSE [i \in 1..Len(exprs) |-> NewFilter(exprs[i])]

ConnectedFrame(c) == [event |-> "connected", data |-> [id |-> c]]
KeepAliveFrame == [event |-> "comment", data |-> [comment |-> "keepalive"]]
EventFrame(event, payload) == [event |-> event, data |-> payload]

IdleCall == [pc |-> "idle", path |-> <<>>, value |-> Null, event |-> "", targets |-> {},
             racing |-> {}]
IdleTask == [pc |-> "none", msg |-> <<>>, ticks |-> 0]
IdlePatch == [pc |-> "idle", path |-> <<>>, body |-> Null, value |-> Null,
              initialized |-> FALSE, ready |-> FALSE]
IdleEval == [pc |-> "idle"]

\* NewServer: the cleanup context is live, the ticker runs, the cleanup
\* goroutine waits in its select; Shutdown has not been called and no
\* request context has ended.  inactiveClients holds the collected ids that
\* cleanupInactiveClients has still to remove, swept (history) all the ids
\* that the sweep under way collected.
IdleHub == [cleanupContext |-> "live", tickerStopped |-> FALSE, tick |-> FALSE,
            cleanup |-> [pc |-> "select", inactiveClients |-> {}, swept |-> {}],
            shutdown |-> "idle", requestDone |-> {}]

InitHub ==
    /\ clients = {}
    /\ filtersOf = [c \in Ids |-> <<>>]
    /\ ctxDone = [c \in Ids |-> FALSE]
    /\ chanClosed = [c \in Ids |-> FALSE]
    /\ MessageChan = [c \in Ids |-> <<>>]
    /\ task = [c \in Ids |-> IdleTask]
    /\ sink = [c \in Ids |-> <<>>]
    /\ stalled = [c \in Ids |-> FALSE]
    /\ sendErr = [c \in Ids |-> "none"]
    /\ offered = [c \in Ids |-> <<>>]
    /\ accepted = [c \in Ids |-> <<>>]
    /\ add = [c \in Ids |-> [pc |-> "idle", seen |-> 0, joined |-> 0, gone |-> FALSE]]
    /\ bcast = [b \in Callers |-> IdleCall]
    /\ broadcasts = 0
    /\ crashed = FALSE
    /\ hub = IdleHub
    /\ calls = [c \in Ids |-> [Close |-> 0, RemoveClient |-> 0]]
    /\ LastActivity = [c \in Ids |-> "recent"]

(***************************************************************************)
(* Client.Send                                                             *)
(***************************************************************************)
\* a Send that waits for room in MessageChan, the head-of-line blocking that
\* the default case of the select rules out
SendWaits(c) == Len(MessageChan[c]) < MaxBuffer

\* the select with a default case never waits for room in MessageChan
SendReady(c) == TRUE

\* an enqueue that makes room by evicting the oldest frame
EnqueueEvicting(buffer, frame) ==
    IF Len(buffer) < MaxBuffer
    THEN [buffer |-> Append(buffer, frame), err |-> "nil"]
    ELSE [buffer |-> Append(Tail(buffer), frame), err |-> "nil"]

\* the enqueue of Client.Send: the select puts the frame into MessageChan
\* when there is room and takes the default case when there is none
Enqueue(buffer, frame) ==
    IF Len(buffer) < MaxBuffer
    THEN [buffer |-> Append(buffer, frame), err |-> "nil"]
    ELSE [buffer |-> buffer, err |-> "client message queue full"]

\* json.Marshal returns an error on a cyclic payload
MarshalFails(frame) == frame.event # "connected" /\ Cyclic(frame.data.value)

\* Client.Send(event, data) on client c, after the payload is computed
Send(c, frame) ==
    LET r == Enqueue(MessageChan[c], frame)
    IN /\ SendReady(c)
       /\ offered' = [offered EXCEPT ![c] = Append(@, frame)]
       /\ IF ctxDone[c]
          THEN /\ sendErr' = [sendErr EXCEPT ![c] = "client context cancelled"]
               /\ UNCHANGED <<MessageChan, accepted>>
          ELSE IF MarshalFails(frame)
          THEN /\ sendErr' = [sendErr EXCEPT ![c] = "failed to marshal data"]
               /\ UNCHANGED <<MessageChan, accepted>>
          ELSE /\ sendErr' = [sendErr EXCEPT ![c] = r.err]
               /\ MessageChan' = [MessageChan EXCEPT ![c] = r.buffer]
               /\ accepted' = [accepted EXCEPT ![c] =
                                  IF r.err = "nil" THEN Append(@, frame) ELSE @]

\* Client.Send that found the context live and reaches its enqueue after
\* Client.Close closed MessageChan: a send on a closed channel panics
SendOnClosed ==
    /\ crashed' = TRUE
    /\ UNCHANGED <<MessageChan, sendErr, offered, accepted>>

(***************************************************************************)
(* Server.AddClient and Server.RemoveClient                                *)
(***************************************************************************)
\* filter expressions and sinks that subscribers of the hub come with
HubFilterExprs == {<<>>, <<Users>>}

\* a capacity check that lets one more client in
AtCapacityAbove(size) == size > MaxClients

\* the capacity check of AddClient, made under the read lock
AtCapacity(size) == size >= MaxClients

\* AddClient, first critical section: the capacity check.  Calls are
\* numbered in the order in which they start.
AddCheck(c) ==
    /\ ~crashed
    /\ add[c].pc = "idle"
    /\ \A d \in Ids : d < c => add[d].pc # "idle"
    /\ add' = [add EXCEPT ![c] =
                 [pc |-> IF AtCapacity(Cardinality(clients))
                         THEN "ErrHandlerTimeout" ELSE "checked",
                  seen |-> Cardinality(clients), joined |-> 0, gone |-> FALSE]]
    /\ UNCHANGED <<clients, filtersOf, ctxDone, chanClosed, MessageChan, task,
                   sink, stalled, sendErr, offered, accepted, bcast, broadcasts,
                   store, patch, crashed, eval,
                   hub, calls, LastActivity>>

\* AddClient: NewClient fails when the writer is no http.Flusher
AddUnsupported(c) ==
    /\ ~crashed
    /\ add[c].pc = "checked"
    /\ add' = [add EXCEPT ![c].pc = "streaming not supported"]
    /\ UNCHANGED <<clients, filtersOf, ctxDone, chanClosed, MessageChan, task,
                   sink, stalled, sendErr, offered, accepted, bcast, broadcasts,
                   store, patch, crashed, eval,
                   hub, calls, LastActivity>>

\* AddClient: NewClient, then the second critical section, which puts the
\* client into the table under the write lock, then client.ProcessMessages()
\* and the goroutine that waits for the end of the request context; both
\* goroutines take their first step in actions of their own
AddRegister(c, filterExprs, writerStalls) ==
    /\ ~crashed
    /\ add[c].pc = "checked"
    /\ filtersOf' = [filtersOf EXCEPT ![c] = NewClientFilters(filterExprs)]
    /\ stalled' = [stalled EXCEPT ![c] = writerStalls]
    /\ clients' = clients \cup {c}
    /\ task' = [task EXCEPT ![c].pc = "select"]
    /\ add' = [add EXCEPT ![c].pc = "started", ![c].joined = broadcasts]
    /\ LastActivity' = [LastActivity EXCEPT ![c] = "recent"]
    /\ UNCHANGED <<ctxDone, chanClosed, MessageChan, sink, sendErr, offered,
                   accepted, bcast, broadcasts, store, patch, crashed, eval,
                   hub, calls>>

\* AddClient: the connected event; the call returns (sendInitialData false).
\* When the client was closed after the goroutines were started, the Send
\* races with Client.Close.
AddConnected(c) ==
    /\ ~crashed
    /\ add[c].pc = "started"
    /\ \/ Send(c, ConnectedFrame(c)) /\ UNCHANGED crashed
       \/ chanClosed[c] /\ SendOnClosed
    /\ add' = [add EXCEPT ![c].pc = "done"]
    /\ UNCHANGED <<clients, filtersOf, ctxDone, chanClosed, task, sink, stalled,
                   bcast, broadcasts, store, patch, eval,
                   hub, calls, LastActivity>>

\* a removal from the table that leaves out Client.Close
DeleteOnly(S) ==
    /\ clients' = clients \ S
    /\ UNCHANGED <<ctxDone, chanClosed>>

\* Client.Close on every client of S and their removal from the table, in
\* one critical section under the write lock
CloseAndDelete(S) ==
    /\ ctxDone' = [c \in Ids |-> ctxDone[c] \/ c \in S]
    /\ chanClosed' = [c \in Ids |-> chanClosed[c] \/ c \in S]
    /\ clients' = clients \ S

\* the history after Client.Close on the clients of S and RemoveClient with
\* the ids of R
Called(S, R) ==
    [c \in Ids |->
        [Close |-> IF c \in S THEN calls[c].Close + 1 ELSE calls[c].Close,
         RemoveClient |-> IF c \in R THEN calls[c].RemoveClient + 1
                          ELSE calls[c].RemoveClient]]

\* a removal that does not look whether the id is in the table
RemoveClientUnchecked(c) == CloseAndDelete({c}) /\ calls' = Called({c}, {c})

\* Server.RemoveClient under the write lock: Client.Close and the removal
\* from the table, nothing for an id that is not in the table
RemoveClient(c) ==
    IF c \in clients
    THEN CloseAndDelete({c}) /\ calls' = Called({c}, {c})
    ELSE UNCHANGED <<ctxDone, chanClosed, clients>> /\ calls' = Called({}, {c})

\* the calls of BroadcastEvent whose snapshot still holds a client of S that
\* is being closed: their Send to that client races with Client.Close
Racing(S) ==
    [b \in Callers |->
        [bcast[b] EXCEPT !.racing = @ \cup (S \cap clients \cap bcast[b].targets)]]

\* the request context of client c ends and the goroutine started by
\* AddClient calls RemoveClient.  A BroadcastEvent whose snapshot still holds
\* c may have its Send to c under way: that Send races with Client.Close.
Disconnect(c) ==
    /\ ~crashed
    /\ add[c].pc \in {"started", "done"}
    /\ ~add[c].gone
    /\ RemoveClient(c)
    /\ add' = [add EXCEPT ![c].gone = TRUE]
    /\ bcast' = Racing({c})
    /\ UNCHANGED <<filtersOf, MessageChan, task, sink, stalled, sendErr, offered,
                   accepted, broadcasts, store, patch, crashed, eval,
                   hub, LastActivity>>

(***************************************************************************)
(* Client.ProcessMessages                                                  *)
(***************************************************************************)
\* a receive that takes the newest frame of the buffer
ReceiveNewest(buffer) ==
    [msg |-> buffer[Len(buffer)], rest |-> SubSeq(buffer, 1, Len(buffer) - 1)]

\* the select receives the oldest frame of MessageChan
Receive(buffer) == [msg |-> Head(buffer), rest |-> Tail(buffer)]

\* case msg, ok := <-c.MessageChan with a frame
TaskTake(c) ==
    /\ ~crashed
    /\ task[c].pc = "select"
    /\ MessageChan[c] # <<>>
    /\ task' = [task EXCEPT ![c].pc = "write", ![c].msg = <<Receive(MessageChan[c]).msg>>]
    /\ MessageChan' = [MessageChan EXCEPT ![c] = Receive(@).rest]
    /\ UNCHANGED <<clients, filtersOf, ctxDone, chanClosed, sink, stalled, sendErr,
                   offered, accepted, add, bcast, broadcasts, store, patch, crashed,
                   eval,
                   hub, calls, LastActivity>>

\* case msg, ok := <-c.MessageChan on the closed and drained channel
TaskClosed(c) ==
    /\ ~crashed
    /\ task[c].pc = "select"
    /\ chanClosed[c] /\ MessageChan[c] = <<>>
    /\ task' = [task EXCEPT ![c].pc = "exited"]
    /\ UNCHANGED <<clients, filtersOf, ctxDone, chanClosed, MessageChan, sink,
                   stalled, sendErr, offered, accepted, add, bcast, broadcasts,
                   store, patch, crashed, eval,
                   hub, calls, LastActivity>>

\* case <-c.Ctx.Done()
TaskCancelled(c) ==
    /\ ~crashed
    /\ task[c].pc = "select"
    /\ ctxDone[c]
    /\ task' = [task EXCEPT ![c].pc = "exited"]
    /\ UNCHANGED <<clients, filtersOf, ctxDone, chanClosed, MessageChan, sink,
                   stalled, sendErr, offered, accepted, add, bcast, broadcasts,
                   store, patch, crashed, eval,
                   hub, calls, LastActivity>>

\* the keep-alive ticks that have fired so far, over all clients
RECURSIVE TicksOf(_)
TicksOf(S) ==
    IF S = {} THEN 0
    ELSE LET c == CHOOSE d \in S : TRUE IN task[c].ticks + TicksOf(S \ {c})

\* case <-keepaliveTicker.C
TaskTick(c) ==
    /\ ~crashed
    /\ task[c].pc = "select"
    /\ TicksOf(Ids) < MaxTicks
    /\ task' = [task EXCEPT ![c].pc = "write", ![c].msg = <<KeepAliveFrame>>,
                            ![c].ticks = @ + 1]
    /\ UNCHANGED <<clients, filtersOf, ctxDone, chanClosed, MessageChan, sink,
                   stalled, sendErr, offered, accepted, add, bcast, broadcasts,
                   store, patch, crashed, eval,
                   hub, calls, LastActivity>>

\* c.W.Write and Flush succeed
TaskWriteOk(c) ==
    /\ ~crashed
    /\ task[c].pc = "write"
    /\ ~stalled[c]
    /\ sink' = [sink EXCEPT ![c] = Append(@, task[c].msg[1])]
    /\ task' = [task EXCEPT ![c].pc = "select", ![c].msg = <<>>]
    /\ LastActivity' = [LastActivity EXCEPT ![c] = "recent"]
    /\ UNCHANGED <<clients, filtersOf, ctxDone, chanClosed, MessageChan, stalled,
                   sendErr, offered, accepted, add, bcast, broadcasts, store, patch,
                   crashed, eval, hub, calls>>

\* c.W.Write fails: CancelFunc and the goroutine returns
TaskWriteFail(c) ==
    /\ ~crashed
    /\ task[c].pc = "write"
    /\ ~stalled[c]
    /\ ctxDone' = [ctxDone EXCEPT ![c] = TRUE]
    /\ task' = [task EXCEPT ![c].pc = "exited", ![c].msg = <<>>]
    /\ UNCHANGED <<clients, filtersOf, chanClosed, MessageChan, sink, stalled,
                   sendErr, offered, accepted, add, bcast, broadcasts, store, patch,
                   crashed, eval,
                   hub, calls, LastActivity>>

(***************************************************************************)
(* Server.BroadcastEvent                                                   *)
(***************************************************************************)
\* the first critical section of BroadcastEvent: the clients to notify
BroadcastStart(b, path, value, event) ==
    /\ ~crashed
    /\ bcast[b].pc = "idle"
    /\ bcast' = [bcast EXCEPT ![b] =
                   [pc |-> "send", path |-> path, value |-> value, event |-> event,
                    targets |-> {c \in clients :
                                    ShouldNotify(filtersOf[c], path, value)},
                    racing |-> {}]]

\* the log lines of the send loop print values with %+v, which does not
\* return on a cyclic value: the process dies of a stack overflow
LogCrashes(value, env) ==
    \/ env.key_value_filtered /\ Cyclic(value)
    \/ IsArr(env.value) /\ Len(env.value.a) > 0 /\ Cyclic(env.value.a[1])

\* one round of the send loop of BroadcastEvent, for client c of the
\* snapshot, in any order (the snapshot comes from a map iteration)
BroadcastSend(b, c) ==
    LET call == bcast[b]
    IN /\ ~crashed
       /\ call.pc = "send"
       /\ c \in call.targets
       /\ bcast' = [bcast EXCEPT ![b].targets = @ \ {c}]
       /\ \E env \in {clientEventData(filtersOf[c], call.path, call.value)} :
             IF LogCrashes(call.value, env)
             THEN /\ crashed' = TRUE
                  /\ UNCHANGED <<MessageChan, sendErr, offered, accepted>>
             ELSE \/ /\ Send(c, EventFrame(call.event, sendPayload(filtersOf[c], env)))
                     /\ UNCHANGED crashed
                  \/ c \in call.racing /\ SendOnClosed
       /\ UNCHANGED <<clients, filtersOf, ctxDone, chanClosed, task, sink, stalled,
                      add, broadcasts, store, eval,
                   hub, calls, LastActivity>>

\* BroadcastEvent returns
BroadcastReturn(b) ==
    /\ ~crashed
    /\ bcast[b].pc = "send"
    /\ bcast[b].targets = {}
    /\ bcast' = [bcast EXCEPT ![b] = IdleCall]
    /\ UNCHANGED <<clients, filtersOf, ctxDone, chanClosed, MessageChan, task, sink,
                   stalled, sendErr, offered, accepted, add, broadcasts, crashed,
                   store, eval,
                   hub, calls, LastActivity>>

\* the paths at which the API layer broadcasts in the hub specification; the
\* value of the n-th broadcast is the number n
HubPaths == {Users}

ApiBroadcast(path) ==
    /\ broadcasts < MaxBroadcasts
    /\ BroadcastStart("api", path, Num(broadcasts + 1), "update")
    /\ broadcasts' = broadcasts + 1
    /\ UNCHANGED <<clients, filtersOf, ctxDone, chanClosed, MessageChan, task, sink,
                   stalled, sendErr, offered, accepted, add, store, patch, crashed,
                   eval,
                   hub, calls, LastActivity>>

ApiSend(c) == BroadcastSend("api", c) /\ UNCHANGED patch

ApiReturn == BroadcastReturn("api") /\ UNCHANGED patch

(***************************************************************************)
(* The request context, Server.Shutdown and the cleanup goroutine          *)
(***************************************************************************)
\* the request context of client c ends (the peer went away or the handler
\* returned)
RequestDone(c) ==
    /\ ~crashed
    /\ add[c].pc \in {"started", "done"}
    /\ c \notin hub.requestDone
    /\ hub' = [hub EXCEPT !.requestDone = @ \cup {c}]
    /\ UNCHANGED <<clients, filtersOf, ctxDone, chanClosed, MessageChan, task, sink,
                   stalled, sendErr, offered, accepted, add, bcast, broadcasts,
                   store, patch, crashed, eval, calls, LastActivity>>

\* an observer that waits for the token of the client, not for the request
ObserverOfToken(c) == ctxDone[c] /\ Disconnect(c)

\* the goroutine started by AddClient has received from r.Context().Done()
\* and calls RemoveClient
ObserverRemove(c) == c \in hub.requestDone /\ Disconnect(c)

\* more than the inactivity threshold (2 minutes) passes since the latest
\* write of LastActivity of client c
TimePasses(c) ==
    /\ ~crashed
    /\ add[c].pc \in {"started", "done"}
    /\ LastActivity[c] = "recent"
    /\ LastActivity' = [LastActivity EXCEPT ![c] = "old"]
    /\ UNCHANGED <<clients, filtersOf, ctxDone, chanClosed, MessageChan, task, sink,
                   stalled, sendErr, offered, accepted, add, bcast, broadcasts,
                   store, patch, crashed, eval, hub, calls>>

\* cleanupTicker fires (every 5 minutes): the tick waits in the channel of
\* the ticker, which holds one tick
CleanupTick ==
    /\ ~crashed
    /\ ~hub.tickerStopped
    /\ ~hub.tick
    /\ hub' = [hub EXCEPT !.tick = TRUE]
    /\ UNCHANGED <<clients, filtersOf, ctxDone, chanClosed, MessageChan, task, sink,
                   stalled, sendErr, offered, accepted, add, bcast, broadcasts,
                   store, patch, crashed, eval, calls, LastActivity>>

\* the ids that cleanupInactiveClients collects under the read lock
Inactive == {c \in clients : LastActivity[c] = "old"}

\* startCleanup takes the ticker case of its select, and
\* cleanupInactiveClients collects the inactive ids under the read lock.
\* The select takes this case whenever a tick waits, also when
\* cleanupContext is done at the same time.
CleanupCollect ==
    /\ ~crashed
    /\ hub.cleanup.pc = "select"
    /\ hub.tick
    /\ hub' = [hub EXCEPT !.tick = FALSE,
                          !.cleanup = [pc |-> "remove", inactiveClients |-> Inactive,
                                       swept |-> Inactive]]
    /\ UNCHANGED <<clients, filtersOf, ctxDone, chanClosed, MessageChan, task, sink,
                   stalled, sendErr, offered, accepted, add, bcast, broadcasts,
                   store, patch, crashed, eval, calls, LastActivity>>

\* cleanupInactiveClients: RemoveClient for one collected id (the ids were
\* collected from a map iteration, in any order)
CleanupRemove(c) ==
    /\ ~crashed
    /\ hub.cleanup.pc = "remove"
    /\ c \in hub.cleanup.inactiveClients
    /\ RemoveClient(c)
    /\ bcast' = Racing({c})
    /\ hub' = [hub EXCEPT !.cleanup.inactiveClients = @ \ {c}]
    /\ UNCHANGED <<filtersOf, MessageChan, task, sink, stalled, sendErr, offered,
                   accepted, add, broadcasts, store, patch, crashed, eval,
                   LastActivity>>

\* a sweep that ends after its first removal
CleanupStops ==
    /\ ~crashed
    /\ hub.cleanup.pc = "remove"
    /\ hub.cleanup.inactiveClients # hub.cleanup.swept
    /\ hub' = [hub EXCEPT !.cleanup.pc = "select", !.cleanup.swept = {}]
    /\ UNCHANGED <<clients, filtersOf, ctxDone, chanClosed, MessageChan, task, sink,
                   stalled, sendErr, offered, accepted, add, bcast, broadcasts,
                   store, patch, crashed, eval, calls, LastActivity>>

\* cleanupInactiveClients returns and startCleanup is back at its select
CleanupDone ==
    /\ ~crashed
    /\ hub.cleanup.pc = "remove"
    /\ hub.cleanup.inactiveClients = {}
    /\ hub' = [hub EXCEPT !.cleanup.pc = "select", !.cleanup.swept = {}]
    /\ UNCHANGED <<clients, filtersOf, ctxDone, chanClosed, MessageChan, task, sink,
                   stalled, sendErr, offered, accepted, add, bcast, broadcasts,
                   store, patch, crashed, eval, calls, LastActivity>>

\* startCleanup takes the case <-s.cleanupContext.Done() and returns
CleanupReturn ==
    /\ ~crashed
    /\ hub.cleanup.pc = "select"
    /\ hub.cleanupContext = "done"
    /\ hub' = [hub EXCEPT !.cleanup.pc = "returned"]
    /\ UNCHANGED <<clients, filtersOf, ctxDone, chanClosed, MessageChan, task, sink,
                   stalled, sendErr, offered, accepted, add, bcast, broadcasts,
                   store, patch, crashed, eval, calls, LastActivity>>

\* Server.Shutdown: cleanupCancel() and cleanupTicker.Stop(); Stop does not
\* take a tick that waits out of the channel
ShutdownBegin ==
    /\ ~crashed
    /\ hub.shutdown = "idle"
    /\ hub' = [hub EXCEPT !.cleanupContext = "done", !.tickerStopped = TRUE,
                          !.shutdown = "lock"]
    /\ UNCHANGED <<clients, filtersOf, ctxDone, chanClosed, MessageChan, task, sink,
                   stalled, sendErr, offered, accepted, add, bcast, broadcasts,
                   store, patch, crashed, eval, calls, LastActivity>>

\* Server.Shutdown: under the write lock every client of the table is
\* closed and deleted; Shutdown returns (the store is the KVStore)
ShutdownClose ==
    /\ ~crashed
    /\ hub.shutdown = "lock"
    /\ CloseAndDelete(clients)
    /\ calls' = Called(clients, {})
    /\ bcast' = Racing(clients)
    /\ hub' = [hub EXCEPT !.shutdown = "returned"]
    /\ UNCHANGED <<filtersOf, MessageChan, task, sink, stalled, sendErr, offered,
                   accepted, add, broadcasts, store, patch, crashed, eval,
                   LastActivity>>

(***************************************************************************)
(* Delivery: two subscribers connect, the API layer broadcasts, and the    *)
(* delivery tasks write to the sinks                                       *)
(***************************************************************************)
Init ==
    /\ InitHub
    /\ store = Map(<<>>)
    /\ patch = IdlePatch
    /\ eval = IdleEval

\* the connections made in the delivery specification
Subscribers == {1, 2}
\* the subscriber whose sink never drains
StalledSinks == {1}
\* the subscriber whose request context may end
Leaving == {2}

Next ==
    \/ \E c \in Subscribers : AddCheck(c)
    \/ \E c \in Subscribers : AddRegister(c, <<Users>>, c \in StalledSinks)
    \/ \E c \in Subscribers : AddConnected(c)
    \/ \E c \in Leaving : Disconnect(c)
    \/ \E c \in Subscribers : TaskTake(c)
    \/ \E c \in Subscribers : TaskClosed(c)
    \/ \E c \in Subscribers : TaskCancelled(c)
    \/ \E c \in Subscribers : TaskTick(c)
    \/ \E c \in Subscribers : TaskWriteOk(c)
    \/ \E c \in Subscribers : TaskWriteFail(c)
    \/ \E p \in HubPaths : ApiBroadcast(p)
    \/ \E c \in Subscribers : ApiSend(c)
    \/ ApiReturn

Spec == Init /\ [][Next]_vars

(***************************************************************************)
(* Admission: concurrent AddClient calls and disconnections                *)
(***************************************************************************)
NextAdmit ==
    \/ \E c \in Ids : AddCheck(c)
    \/ \E c \in Ids : AddUnsupported(c)
    \/ \E c \in Ids, e \in HubFilterExprs : AddRegister(c, e, FALSE)
    \/ \E c \in Ids : AddConnected(c)
    \/ \E c \in Ids : Disconnect(c)

SpecAdmit == Init /\ [][NextAdmit]_vars

(***************************************************************************)
(* Lifecycle: subscribers connect and go away, their sinks may fail, the   *)
(* cleanup goroutine sweeps, the hub is shut down; the only frames are the *)
(* connected events (keep-alives are part of the lifecycle of one          *)
(* subscriber below)                                                       *)
(***************************************************************************)
\* the subscribers whose sink may fail
FailingSinks == {1}

NextLife ==
    \/ \E c \in Subscribers :
          \/ AddCheck(c)
          \/ AddRegister(c, <<Users>>, FALSE)
          \/ AddConnected(c)
          \/ TimePasses(c)
          \/ CleanupRemove(c)
          \/ TaskTake(c)
          \/ TaskClosed(c) \/ TaskCancelled(c)
          \/ TaskWriteOk(c)
    \/ \E c \in FailingSinks : TaskWriteFail(c)
    \/ \E c \in Leaving : RequestDone(c) \/ ObserverRemove(c)
    \/ CleanupTick \/ CleanupCollect \/ CleanupDone \/ CleanupReturn
    \/ ShutdownBegin \/ ShutdownClose

SpecLife == Init /\ [][NextLife]_vars

(***************************************************************************)
(* Update: the store is initialized, a subscriber connects with the path   *)
(* of the request as its filter, and one PATCH request is handled          *)
(***************************************************************************)
\* the paths and the decoded bodies of the PATCH request
PatchPaths ==
    {Root, Users, Users \o Status, Data \o Users, Users \o Idx(0) \o Status,
     Data \o Users \o Idx(0) \o Status}

PatchBodies == {Str(Away), Num(1), StatusIs(Away)}

\* the trees that the store is initialized with
Trees ==
    {Map(Key(Users) :> Arr(<<StatusIs(Online)>>)),
     Map(DataKey :> Map(Key(Users) :> Arr(<<StatusIs(Online)>>))),
     Map(Key(Users) :> StatusIs(Online))}

\* the connection of the subscriber
Subscriber == Min(Ids)

InitPatch ==
    /\ InitHub
    /\ store = Map(<<>>)
    /\ eval = IdleEval
    /\ \E p \in PatchPaths, v \in PatchBodies :
          patch = [IdlePatch EXCEPT !.path = p, !.body = v]

\* KVStore.Initialize
Initialize(tree) ==
    /\ ~crashed
    /\ ~patch.initialized
    /\ patch.pc = "idle"
    /\ store' = tree
    /\ patch' = [patch EXCEPT !.initialized = TRUE]
    /\ UNCHANGED <<hubVars, eval>>

\* HandleStoreUpdate up to Store.SetFromJSON: it answers 400 when Set fails;
\* a panic in Set ends the request without an answer.  What Set has changed
\* in the tree stays changed in all cases.  ready records that the tree was
\* initialized and the subscriber connected when the request came.
PatchSet ==
    LET r == KVStoreSet(store, patch.path, patch.body)
    IN /\ ~crashed
       /\ patch.pc = "idle"
       /\ store' = r.data
       /\ patch' = [patch EXCEPT
                      !.pc = IF r.err = "nil" THEN "set"
                             ELSE IF r.err = "panic" THEN "panicked" ELSE "400",
                      !.ready = patch.initialized /\ add[Subscriber].pc = "done"]
       /\ UNCHANGED <<hubVars, eval>>

\* HandleStoreUpdate: Store.Get of the updated value; when Get fails there is
\* no broadcast and the answer is 200 all the same
PatchGet ==
    LET g == KVStoreGet(store, patch.path)
    IN /\ ~crashed
       /\ patch.pc = "set"
       /\ patch' = IF g.err = "nil"
                   THEN [patch EXCEPT !.pc = "got", !.value = g.v]
                   ELSE [patch EXCEPT !.pc = "200"]
       /\ UNCHANGED <<hubVars, store, eval>>

\* HandleStoreUpdate: SSEServer.BroadcastEvent(path, value, "update")
PatchBroadcast ==
    /\ patch.pc = "got"
    /\ BroadcastStart("patch", patch.path, patch.value, "update")
    /\ patch' = [patch EXCEPT !.pc = "broadcast"]
    /\ UNCHANGED <<clients, filtersOf, ctxDone, chanClosed, MessageChan, task, sink,
                   stalled, sendErr, offered, accepted, add, broadcasts, store,
                   crashed, eval,
                   hub, calls, LastActivity>>

PatchSend(c) == BroadcastSend("patch", c) /\ UNCHANGED patch

\* BroadcastEvent returns and HandleStoreUpdate answers 200
PatchReturn ==
    /\ patch.pc = "broadcast"
    /\ BroadcastReturn("patch")
    /\ patch' = [patch EXCEPT !.pc = "200"]

NextPatch ==
    \/ \E tree \in Trees : Initialize(tree)
    \/ AddCheck(Subscriber)
    \/ AddRegister(Subscriber, <<patch.path>>, FALSE)
    \/ AddConnected(Subscriber)
    \/ TaskTake(Subscriber)
    \/ TaskWriteOk(Subscriber)
    \/ PatchSet
    \/ PatchGet
    \/ PatchBroadcast
    \/ PatchSend(Subscriber)
    \/ PatchReturn

SpecPatch == InitPatch /\ [][NextPatch]_vars

(***************************************************************************)
(* Matching: one subscriber, one change, through the filter pipeline of    *)
(* BroadcastEvent                                                          *)
(***************************************************************************)
\* the filter expressions of the subscriber
MatchExprs ==
    {<<>>, <<Root>>, <<Users>>, <<Users \o Idx(0) \o Status>>,
     <<Users \o Wild \o Status>>, <<Users \o Cond(Key(Status), Away)>>,
     <<Data \o Users>>, <<Config, Users \o Idx(1) \o Status>>,
     <<Data \o Users \o Cond(Key(Status), Away)>>}

\* the paths of the change
MatchPaths ==
    {Root, Users, User, Data, Users \o Idx(0), Users \o Idx(0) \o Status,
     Users \o Idx(1) \o Status, Config, Data \o Users}

\* the values of the change
MatchValues ==
    {Null, Str(Away), Num(1), StatusIs(Away), StatusIs(Online),
     Arr(<<StatusIs(Online)>>), Arr(<<StatusIs(Online), StatusIs(Away)>>),
     Map(Key(Users) :> Arr(<<StatusIs(Online), StatusIs(Away)>>)),
     Map(DataKey :> Map(Key(Users) :> Arr(<<StatusIs(Online)>>)))}

InitMatch ==
    /\ InitHub
    /\ store = Map(<<>>)
    /\ patch = IdlePatch
    /\ \E e \in MatchExprs, p \in MatchPaths, v \in MatchValues :
          eval = [pc |-> "input", filters |-> NewClientFilters(e), path |-> p,
                  value |-> v, isMatch |-> FALSE, notify |-> FALSE, frame |-> <<>>]

\* the snapshot of BroadcastEvent decides with Client.ShouldNotify whether
\* the subscriber is notified; Filter.IsMatch of its first filter is kept too
EvalMatch ==
    /\ eval.pc = "input"
    /\ eval' = [eval EXCEPT
                  !.pc = "matched",
                  !.isMatch = IsMatch(eval.filters[1], eval.path, eval.value),
                  !.notify = ShouldNotify(eval.filters, eval.path, eval.value)]
    /\ UNCHANGED <<hubVars, store, patch>>

\* the send loop of BroadcastEvent for the notified subscriber: the payload
\* is narrowed and Client.Send serializes it; frame is what MessageChan gets
EvalDeliver ==
    LET env == clientEventData(eval.filters, eval.path, eval.value)
        frame == EventFrame("update", sendPayload(eval.filters, env))
    IN /\ eval.pc = "matched"
       /\ eval.notify
       /\ eval' = [eval EXCEPT
                     !.pc = "delivered",
                     !.frame = IF LogCrashes(eval.value, env) \/ MarshalFails(frame)
                               THEN <<>> ELSE <<frame>>]
       /\ UNCHANGED <<hubVars, store, patch>>

NextMatch == EvalMatch \/ EvalDeliver

SpecMatch == InitMatch /\ [][NextMatch]_vars

(***************************************************************************)
(* Lifecycle of one subscriber, with the scheduling that Go gives: every   *)
(* goroutine that can take a step takes it in the end, a caller that waits *)
(* for the write lock gets it, the ticker fires while it is not stopped,   *)
(* and time passes.  When requests end, whether writes fail and whether    *)
(* Shutdown is called is up to the environment.                            *)
(***************************************************************************)
NextSolo ==
    \/ AddCheck(Subscriber)
    \/ AddRegister(Subscriber, <<Users>>, FALSE)
    \/ AddConnected(Subscriber)
    \/ RequestDone(Subscriber)
    \/ ObserverRemove(Subscriber)
    \/ TimePasses(Subscriber)
    \/ TaskTake(Subscriber)
    \/ TaskClosed(Subscriber) \/ TaskCancelled(Subscriber) \/ TaskTick(Subscriber)
    \/ TaskWriteOk(Subscriber) \/ TaskWriteFail(Subscriber)
    \/ CleanupTick \/ CleanupCollect \/ CleanupRemove(Subscriber) \/ CleanupDone
    \/ CleanupReturn
    \/ ShutdownBegin \/ ShutdownClose

Scheduling ==
    /\ WF_vars(ObserverRemove(Subscriber))
    /\ WF_vars(TimePasses(Subscriber))
    /\ WF_vars(TaskCancelled(Subscriber))
    /\ WF_vars(CleanupTick)
    /\ WF_vars(CleanupCollect)
    /\ WF_vars(CleanupRemove(Subscriber))
    /\ WF_vars(CleanupDone)
    /\ WF_vars(CleanupReturn)
    /\ WF_vars(ShutdownClose)

SpecSolo == Init /\ [][NextSolo]_vars /\ Scheduling

\* the same, when moreover every write to the sink returns
SpecExit ==
    /\ Init /\ [][NextSolo]_vars /\ Scheduling
    /\ WF_vars(TaskWriteOk(Subscriber) \/ TaskWriteFail(Subscriber))

(***************************************************************************)
(* Parsing: Parser.Parse is applied to paths put together from components  *)
(***************************************************************************)
\* the longest path, in components
MaxComponents == 3

\* the components of the paths: properties, indexes and the wildcard
ParseProperties == {Users, Status}
ParseComponents == ParseProperties \cup {Idx(0), Idx(1), Wild}

\* the component lists of the paths: none (the root), or a leading property
\* and up to MaxComponents further components
ComponentLists ==
    {<<>>} \cup
    {<<p>> \o rest : p \in ParseProperties,
                     rest \in UNION {[1..k -> ParseComponents] : k \in 0..MaxComponents}}

RECURSIVE Concat(_)
Concat(components) ==
    IF components = <<>> THEN <<>> ELSE Head(components) \o Concat(Tail(components))

\* the root is written "." or as the empty string
InitParse ==
    /\ InitHub
    /\ store = Map(<<>>)
    /\ patch = IdlePatch
    /\ \E components \in ComponentLists, root \in {<<>>, Root} :
          eval = [pc |-> "input", components |-> components,
                  path |-> IF components = <<>> THEN root ELSE Concat(components),
                  parsed |-> [err |-> "none"]]

\* one call of Parser.Parse
EvalParse ==
    /\ eval.pc = "input"
    /\ eval' = [eval EXCEPT !.pc = "parsed", !.parsed = Parse(eval.path)]
    /\ UNCHANGED <<hubVars, store, patch>>

NextParse == EvalParse

SpecParse == InitParse /\ [][NextParse]_vars

(***************************************************************************)
(* Rejection: Parser.Parse is applied to strings outside the grammar, each *)
(* made from a path of the grammar by one defect                           *)
(***************************************************************************)
Defects == {"no leading dot", "unbalanced bracket", "letter index"}

\* the string with the defect
Defective(path, defect) ==
    CASE defect = "no leading dot" -> Tail(path)
      [] defect = "unbalanced bracket" -> path \o <<"[", "0">>
      [] defect = "letter index" -> path \o <<"[", "a", "]">>

InitReject ==
    /\ InitHub
    /\ store = Map(<<>>)
    /\ patch = IdlePatch
    /\ \E components \in ComponentLists \ {<<>>}, defect \in Defects :
          eval = [pc |-> "input", components |-> components, defect |-> defect,
                  path |-> Defective(Concat(components), defect),
                  parsed |-> [err |-> "none"]]

SpecReject == InitReject /\ [][NextParse]_vars

(***************************************************************************)
(* Store: callers initialize the memory-resident store and call Get, Set   *)
(* and Delete on it, one call at a time (every method holds the mutex)     *)
(***************************************************************************)
\* the number of calls made on the store
MaxOps == 3

\* the paths of the calls
StorePaths ==
    {<<>>, Root, Users, Status, Data \o Users, Config \o Users, Users \o Idx(0),
     Users \o Idx(1), Users \o Idx(0) \o Status, Users \o Wild,
     Users \o Wild \o Status, Data \o Users \o Wild,
     Config \o Users \o Status \o Wild}

\* the values of Set
StoreValues == {Str(Away), StatusIs(Away)}

\* the trees of Initialize
StoreTrees ==
    Trees \cup
    {Map(Key(Users) :> Arr(<<StatusIs(Online), Str(Away), StatusIs(Away)>>)
         @@ DataKey :> Map(Key(Users) :> Arr(<<StatusIs(Online)>>)))}

\* no call made yet; the latest call is kept with the tree it found.  held
\* is the latest value a caller holds that is the mapping KVStore.data
\* itself (a Go map is a reference): as the caller saw it when it got or
\* gave it, and as it is now; alias tells whether it still is KVStore.data
IdleOp == [pc |-> "store", ops |-> 0, op |-> "none", path |-> <<>>, value |-> Null,
           err |-> "nil", before |-> Map(<<>>), result |-> Null,
           held |-> [alias |-> FALSE, seen |-> Null, now |-> Null]]

\* NewStore
InitStore ==
    /\ InitHub
    /\ patch = IdlePatch
    /\ store = Map(<<>>)
    /\ eval = IdleOp

Call(op, path, value, err, result, held) ==
    [eval EXCEPT !.ops = @ + 1, !.op = op, !.path = path, !.value = value,
                 !.err = err, !.before = store, !.result = result, !.held = held]

\* the caller holds KVStore.data itself
Shared(tree) == [alias |-> TRUE, seen |-> tree, now |-> tree]

\* what the caller holds after the tree was changed in place
InPlace(tree) ==
    IF eval.held.alias THEN [eval.held EXCEPT !.now = tree] ELSE eval.held

\* what the caller holds after KVStore.data was replaced by another mapping
Replaced == [eval.held EXCEPT !.alias = FALSE]

\* KVStore.Initialize: s.data = data
KVInitialize(tree) ==
    /\ eval.ops < MaxOps
    /\ store' = tree
    /\ eval' = Call("Initialize", <<>>, tree, "nil", Null, Shared(tree))
    /\ UNCHANGED <<hubVars, patch>>

\* KVStore.Set: s.data = valMap at the root, a change in place elsewhere; a
\* panic leaves the tree as the call left it
KVSet(path, value) ==
    /\ eval.ops < MaxOps
    /\ \E r \in {KVStoreSet(store, path, value)} :
          /\ store' = r.data
          /\ eval' = Call("Set", path, value, r.err, Null,
                          IF path \in {<<>>, Root}
                          THEN IF r.err = "nil" THEN Shared(value) ELSE eval.held
                          ELSE InPlace(r.data))
    /\ UNCHANGED <<hubVars, patch>>

\* KVStore.Delete: a new mapping at the root, a change in place elsewhere
KVDelete(path) ==
    /\ eval.ops < MaxOps
    /\ \E r \in {KVStoreDelete(store, path)} :
          /\ store' = r.data
          /\ eval' = Call("Delete", path, Null, r.err, Null,
                          IF path \in {<<>>, Root} THEN Replaced ELSE InPlace(r.data))
    /\ UNCHANGED <<hubVars, patch>>

\* KVStore.Get: return s.data at the root
KVGet(path) ==
    /\ eval.ops < MaxOps
    /\ \E g \in {KVStoreGet(store, path)} :
          eval' = Call("Get", path, Null, g.err, IF g.err = "nil" THEN g.v ELSE Null,
                       IF path \in {<<>>, Root} THEN Shared(store) ELSE eval.held)
    /\ UNCHANGED <<hubVars, patch, store>>

\* KVStore.FindMatches
KVFindMatches(path) ==
    /\ eval.ops < MaxOps
    /\ \E r \in {KVStoreFindMatches(store, path)} :
          eval' = Call("FindMatches", path, Null, r.err, r.results, eval.held)
    /\ UNCHANGED <<hubVars, patch, store>>

NextStore ==
    \/ \E path \in StorePaths : KVFindMatches(path)
    \/ \E tree \in StoreTrees : KVInitialize(tree)
    \/ \E path \in StorePaths, value \in StoreValues : KVSet(path, value)
    \/ \E path \in StorePaths : KVDelete(path)
    \/ \E path \in StorePaths : KVGet(path)

SpecStore == InitStore /\ [][NextStore]_vars

(***************************************************************************)
(* Database: the store kept in one MongoDB document (document mode).       *)
(* store is the data of the document, eval.exists whether the collection   *)
(* holds it.  The document is initialized or not, then two callers (of one *)
(* instance or of two) call MongoStore.Set; FindOne and ReplaceOne are     *)
(* single operations of the database, nothing else orders the callers.     *)
(***************************************************************************)
Writers == {"w1", "w2"}

MongoPaths == {Root, Users, Data \o Users, Data \o Status}

MongoValues == {Str(Away), StatusIs(Online)}

IdleWriter == [pc |-> "idle", path |-> <<>>, value |-> Null, doc |-> Map(<<>>),
               err |-> "nil"]

\* NewMongoStore; overlapped records that a caller read the document while
\* the other one held a changed copy it had not yet written back
InitMongo ==
    /\ InitHub
    /\ patch = IdlePatch
    /\ store = Map(<<>>)
    /\ eval = [pc |-> "mongo", exists |-> FALSE, overlapped |-> FALSE,
               set |-> [w \in Writers |-> IdleWriter]]

\* MongoStore.Initialize: ReplaceOne with upsert
MongoInitialize(tree) ==
    /\ \A w \in Writers : eval.set[w].pc = "idle"
    /\ ~eval.exists
    /\ store' = tree
    /\ eval' = [eval EXCEPT !.exists = TRUE]
    /\ UNCHANGED <<hubVars, patch>>

\* the change that MongoStore.Set makes to its copy of the document data
setInDocument(data, path, value) ==
    IF path = <<>> \/ path = <<".">>
    THEN IF IsMap(value) THEN [err |-> "nil", data |-> value]
         ELSE [err |-> "value must be a map when setting root", data |-> data]
    ELSE MatcherSet(data, path, value)

\* MongoStore.Set up to ReplaceOne: FindOne decodes the document (a missing
\* document gives empty data) and the value is set in the decoded copy
MongoFind(w, path, value) ==
    /\ eval.set[w].pc = "idle"
    /\ \E r \in {setInDocument(IF eval.exists THEN store ELSE Map(<<>>), path, value)} :
          eval' = [eval EXCEPT
                     !.overlapped = @ \/ \E o \in Writers : eval.set[o].pc = "replace",
                     !.set[w] = [pc |-> IF r.err = "nil" THEN "replace"
                                        ELSE IF r.err = "panic" THEN "panicked"
                                        ELSE "returned",
                                 path |-> path, value |-> value, doc |-> r.data,
                                 err |-> r.err]]
    /\ UNCHANGED <<hubVars, patch, store>>

\* MongoStore.Set: ReplaceOne with upsert writes the whole copy, and Set
\* returns
MongoReplace(w) ==
    /\ eval.set[w].pc = "replace"
    /\ store' = eval.set[w].doc
    /\ eval' = [eval EXCEPT !.exists = TRUE, !.set[w].pc = "returned"]
    /\ UNCHANGED <<hubVars, patch>>

NextMongo ==
    \/ \E tree \in Trees : MongoInitialize(tree)
    \/ \E w \in Writers, path \in MongoPaths, value \in MongoValues :
          MongoFind(w, path, value)
    \/ \E w \in Writers : MongoReplace(w)

SpecMongo == InitMongo /\ [][NextMongo]_vars

(***************************************************************************)
(* Initial snapshot: AddClient with sendInitialData = true, after the      *)
(* connected event and the delay, for one subscriber and one store         *)
(***************************************************************************)
\* the filter expressions of the subscriber
SnapshotExprs ==
    {<<>>, <<Root>>, <<Root, Root>>, <<Users>>, <<Users, Users>>, <<Root, Users>>,
     <<Users, Root>>, <<Root \o Cond(Key(Status), Online)>>,
     <<Root \o Cond(Key(Status), Online), Data \o Users>>,
     <<Root \o Cond(Key(Status), Online), Root \o Cond(Key(Status), Online)>>,
     <<Data \o Users, Data \o Users>>, <<Users \o Wild, Users \o Idx(0)>>,
     <<Users \o Cond(Key(Status), Online), Users>>, <<Config, Status>>,
     <<Data \o Users, Root \o Cond(Key(Status), Online)>>}

\* the subscriber is registered and has its connected event; eval is the
\* position in the loop over client.Filters, with rootData and sent
InitSnapshot ==
    /\ InitHub
    /\ patch = IdlePatch
    /\ store \in Trees
    /\ \E e \in SnapshotExprs :
          eval = [pc |-> "get", filters |-> NewClientFilters(e), i |-> 1,
                  rootData |-> Null, sent |-> {}, frames |-> <<>>]

\* rootData, err := s.store.Get(".")
SnapshotGet ==
    /\ eval.pc = "get"
    /\ \E got \in {KVStoreGet(store, <<".">>)} :
          eval' = IF got.err = "nil" /\ got.v # Null
                  THEN [eval EXCEPT !.pc = "loop", !.rootData = got.v]
                  ELSE [eval EXCEPT !.pc = "done"]
    /\ UNCHANGED <<hubVars, store, patch>>

\* one turn of the loop over client.Filters: each payload goes through
\* Client.Send and its path is put into sent; frames keeps what Send
\* serializes
SnapshotFilter ==
    /\ eval.pc = "loop"
    /\ eval.i <= Len(eval.filters)
    /\ \E payloads \in {filterPayloads(store, eval.rootData, eval.filters[eval.i],
                                       eval.sent)} :
          eval' = [eval EXCEPT
                     !.i = @ + 1,
                     !.sent = @ \cup {payloads[j].path : j \in 1..Len(payloads)},
                     !.frames = @ \o [j \in 1..Len(payloads) |->
                                        EventFrame("initial_data",
                                                   sendPayload(eval.filters, payloads[j]))]]
    /\ UNCHANGED <<hubVars, store, patch>>

\* AddClient returns the client
SnapshotReturn ==
    /\ eval.pc = "loop"
    /\ eval.i > Len(eval.filters)
    /\ eval' = [eval EXCEPT !.pc = "done"]
    /\ UNCHANGED <<hubVars, store, patch>>

NextSnapshot == SnapshotGet \/ SnapshotFilter \/ SnapshotReturn

SpecSnapshot == InitSnapshot /\ [][NextSnapshot]_vars

(***************************************************************************)
(* Change feed: NewMongoStore starts the goroutine of setupChangeStream,   *)
(* NewServer installs the callback with SetChangeListener, and writers     *)
(* commit changes of the document.  store is the data of the document.     *)
(* No subscriber is connected, so the BroadcastEvent that the callback     *)
(* makes finds no client to send to; notified keeps its arguments.         *)
(***************************************************************************)
\* the number of changes committed
MaxCommits == 2

\* NewMongoStore has returned: the goroutine is started, changeListener is
\* nil.  due counts the changes committed after the hub was constructed,
\* stream holds the change events the open change stream has not yet given
\* out, failed tells that Watch or the cursor ended with an error
InitFeed ==
    /\ InitHub
    /\ patch = IdlePatch
    /\ store = Map(<<>>)
    /\ eval = [pc |-> "feed", changeListener |-> "nil", feed |-> "started",
               failed |-> FALSE, stream |-> <<>>, commits |-> 0, due |-> 0,
               notified |-> <<>>]

\* NewServer: mongoStore.SetChangeListener(...)
SetChangeListener ==
    /\ eval.changeListener = "nil"
    /\ eval' = [eval EXCEPT !.changeListener = "set"]
    /\ UNCHANGED <<hubVars, patch, store>>

\* setupChangeStream up to the loop: it returns when changeListener is nil,
\* else collection.Watch opens the change stream
FeedWatch ==
    /\ eval.feed = "started"
    /\ eval' = [eval EXCEPT !.feed = IF eval.changeListener = "nil"
                                     THEN "returned" ELSE "watching"]
    /\ UNCHANGED <<hubVars, patch, store>>

\* collection.Watch returns an error: it is logged and the goroutine returns
FeedWatchFails ==
    /\ eval.feed = "started"
    /\ eval.changeListener # "nil"
    /\ eval' = [eval EXCEPT !.feed = "returned", !.failed = TRUE]
    /\ UNCHANGED <<hubVars, patch, store>>

\* a writer commits an insert, update or replace of the document; an open
\* change stream gets the event with the full document
Commit(tree) ==
    /\ eval.commits < MaxCommits
    /\ store' = tree
    /\ eval' = [eval EXCEPT
                  !.commits = @ + 1,
                  !.due = IF eval.changeListener = "set" THEN @ + 1 ELSE @,
                  !.stream = IF eval.feed = "watching" THEN Append(@, tree) ELSE @]
    /\ UNCHANGED <<hubVars, patch>>

\* one turn of the loop: changeStream.Next gives an event, its data is
\* decoded and s.changeListener(".", dataMap) is called
FeedNext ==
    /\ eval.feed = "watching"
    /\ eval.stream # <<>>
    /\ eval' = [eval EXCEPT
                  !.stream = Tail(@),
                  !.notified = Append(@, [path |-> Root, value |-> Head(eval.stream)])]
    /\ UNCHANGED <<hubVars, patch, store>>

\* changeStream.Next returns false with an error: it is logged after the
\* loop and the goroutine returns
FeedError ==
    /\ eval.feed = "watching"
    /\ eval' = [eval EXCEPT !.feed = "returned", !.failed = TRUE, !.stream = <<>>]
    /\ UNCHANGED <<hubVars, patch, store>>

NextFeed ==
    \/ SetChangeListener
    \/ FeedWatch
    \/ FeedWatchFails
    \/ \E tree \in Trees : Commit(tree)
    \/ FeedNext
    \/ FeedError

\* main goes on to NewServer, and the goroutine of the feed runs
SpecFeed ==
    /\ InitFeed /\ [][NextFeed]_vars
    /\ WF_vars(SetChangeListener) /\ WF_vars(FeedWatch) /\ WF_vars(FeedNext)

(***************************************************************************)
(* Concurrent updates: two PATCH requests on one path, each handled by     *)
(* HandleStoreUpdate in a goroutine of its own, and one subscriber whose   *)
(* filter is the path.  No frame is dropped.                               *)
(***************************************************************************)
Requests == {"r1", "r2"}

OrderPaths == {Data \o Users, Data \o Status}

OrderBodies == {Str(Away), Str(Online)}

\* applied is the order in which the store applied the writes, frames the
\* order in which the frames were put into the buffer of the subscriber
InitOrder ==
    /\ InitHub
    /\ patch = IdlePatch
    /\ store = Map(<<>>)
    /\ \E p \in OrderPaths, b \in [Requests -> OrderBodies] :
          eval = [pc |-> "order", path |-> p, filters |-> NewClientFilters(<<p>>),
                  req |-> [r \in Requests |->
                             [pc |-> "idle", body |-> b[r], value |-> Null]],
                  applied |-> <<>>, frames |-> <<>>, overlapped |-> FALSE]

\* HandleStoreUpdate up to Store.SetFromJSON
OrderSet(r) ==
    /\ eval.req[r].pc = "idle"
    /\ \E set \in {KVStoreSet(store, eval.path, eval.req[r].body)} :
          /\ store' = set.data
          /\ eval' = [eval EXCEPT
                        !.req[r].pc = IF set.err = "nil" THEN "set"
                                      ELSE IF set.err = "panic" THEN "panicked"
                                      ELSE "400",
                        !.applied = IF set.err = "nil" THEN Append(@, r) ELSE @,
                        !.overlapped = @ \/ \E o \in Requests \ {r} :
                                                eval.req[o].pc \in {"set", "got"}]
    /\ UNCHANGED <<hubVars, patch>>

\* HandleStoreUpdate: Store.Get of the updated value
OrderGet(r) ==
    /\ eval.req[r].pc = "set"
    /\ \E got \in {KVStoreGet(store, eval.path)} :
          eval' = IF got.err = "nil"
                  THEN [eval EXCEPT !.req[r].pc = "got", !.req[r].value = got.v]
                  ELSE [eval EXCEPT !.req[r].pc = "200"]
    /\ UNCHANGED <<hubVars, store, patch>>

\* HandleStoreUpdate: SSEServer.BroadcastEvent(path, updatedValue, "update"),
\* whose Send puts the frame into the buffer of the subscriber, and the
\* answer 200
OrderBroadcast(r) ==
    /\ eval.req[r].pc = "got"
    /\ \E env \in {clientEventData(eval.filters, eval.path, eval.req[r].value)} :
          eval' = [eval EXCEPT
                     !.req[r].pc = "200",
                     !.frames =
                         IF ShouldNotify(eval.filters, eval.path, eval.req[r].value)
                         THEN Append(@, [req |-> r,
                                         frame |-> EventFrame("update",
                                                       sendPayload(eval.filters, env))])
                         ELSE @]
    /\ UNCHANGED <<hubVars, store, patch>>

NextOrder == \E r \in Requests : OrderSet(r) \/ OrderGet(r) \/ OrderBroadcast(r)

SpecOrder == InitOrder /\ [][NextOrder]_vars

(***************************************************************************)
(* Narrowing: one BroadcastEvent with two subscribers in its snapshot.     *)
(* eventData is the payload map that BroadcastEvent makes once; the send   *)
(* loop makes clientEventData from it for each client, and Client.Send     *)
(* writes into the map it is given.                                        *)
(***************************************************************************)
\* a send loop that narrows eventData itself: what one client got is what
\* the next one starts from
eventDataShared(eventData, narrowed) == narrowed

\* the send loop copies eventData into a new map for each client and
\* changes the copy only: eventData is after a client what it was before
eventDataCopied(eventData, narrowed) == eventData

InitNarrow ==
    /\ InitHub
    /\ patch = IdlePatch
    /\ store = Map(<<>>)
    /\ \E e \in [Subscribers -> MatchExprs], p \in MatchPaths, v \in MatchValues :
          /\ \E c \in Subscribers : ShouldNotify(NewClientFilters(e[c]), p, v)
          /\ eval = [pc |-> "narrow", path |-> p, value |-> v,
                     filters |-> [c \in Subscribers |-> NewClientFilters(e[c])],
                     eventData |-> Envelope(p, v),
                     clientsToNotify |->
                         {c \in Subscribers : ShouldNotify(NewClientFilters(e[c]), p, v)},
                     frames |-> [c \in Subscribers |-> <<>>]]

\* one round of the send loop, for client c of the snapshot: the filter
\* loop on the copy of eventData, then client.Send with the copy
NarrowSend(c) ==
    /\ c \in eval.clientsToNotify
    /\ \E env \in {narrowLoop(eval.filters[c], 1, eval.path, eval.value,
                               eval.eventData)} :
          \E sent \in {sendPayload(eval.filters[c], env)} :
             eval' = [eval EXCEPT
                        !.clientsToNotify = @ \ {c},
                        !.eventData = eventDataCopied(@, sent),
                        !.frames[c] = <<EventFrame("update", sent)>>]
    /\ UNCHANGED <<hubVars, store, patch>>

NextNarrow == \E c \in Subscribers : NarrowSend(c)

SpecNarrow == InitNarrow /\ [][NextNarrow]_vars

(***************************************************************************)
(* Locking: the goroutines that use Server.clientsMutex and the fields of  *)
(* one client, each as the sequence of its lock operations, its accesses   *)
(* to shared fields and its calls of Client.Send and Client.Close, in the  *)
(* order of the source.  An instruction is <<operation, operand>>.         *)
(***************************************************************************)
Goroutines == {"AddClient", "BroadcastEvent", "cleanup", "ProcessMessages"}

\* BroadcastEvent with the read lock kept until the function returns
BroadcastEventDeferred ==
    << <<"RLock", "">>, <<"read", "clients">>, <<"if", "targets">>,
       <<"Send", "update">>, <<"RUnlock", "">> >>

\* Server.AddClient with sendInitialData: the capacity check under the read
\* lock, NewClient, the registration under the write lock,
\* client.ProcessMessages(), the connected event, the initial snapshot
AddClientBody ==
    << <<"RLock", "">>, <<"read", "clients">>, <<"RUnlock", "">>,
       <<"if", "capacity">>, <<"write", "LastActivity">>,
       <<"Lock", "">>, <<"write", "clients">>, <<"Unlock", "">>,
       <<"go", "ProcessMessages">>, <<"Send", "connected">>,
       <<"Send", "initial_data">> >>

\* Server.BroadcastEvent: the snapshot under the read lock, then the sends
BroadcastEventBody ==
    << <<"RLock", "">>, <<"read", "clients">>, <<"RUnlock", "">>,
       <<"if", "targets">>, <<"Send", "update">> >>

\* Server.cleanupInactiveClients: the collection under the read lock, then
\* Server.RemoveClient for the collected id under the write lock
CleanupBody ==
    << <<"RLock", "">>, <<"read", "LastActivity">>, <<"RUnlock", "">>,
       <<"if", "inactive">>, <<"Lock", "">>, <<"read", "clients">>,
       <<"Close", "">>, <<"write", "clients">>, <<"Unlock", "">> >>

\* the goroutine of Client.ProcessMessages: receive, c.W.Write and Flush,
\* c.LastActivity = time.Now(), and again
ProcessMessagesBody ==
    << <<"receive", "">>, <<"Write", "">>, <<"write", "LastActivity">>,
       <<"loop", "">> >>

Body(g) ==
    CASE g = "AddClient" -> AddClientBody
      [] g = "BroadcastEvent" -> BroadcastEventBody
      [] g = "cleanup" -> CleanupBody
      [] g = "ProcessMessages" -> ProcessMessagesBody

\* the next instruction of goroutine g
Instr(g) ==
    IF eval.at[g] \in 1..Len(Body(g)) THEN Body(g)[eval.at[g]] ELSE <<"none", "">>

\* the three callers have been called, the goroutine of the client is not
\* started; nobody holds clientsMutex, the client is not in the table
InitLock ==
    /\ InitHub
    /\ patch = IdlePatch
    /\ store = Map(<<>>)
    /\ eval = [pc |-> "lock",
               at |-> [g \in Goroutines |-> IF g = "ProcessMessages" THEN 0 ELSE 1],
               readers |-> {}, writer |-> "none",
               registered |-> FALSE, targets |-> FALSE, inactive |-> FALSE,
               old |-> FALSE, closed |-> FALSE, queue |-> 0]

\* clientsMutex.RLock() and clientsMutex.Lock()
Acquire(g) ==
    /\ Instr(g)[1] \in {"RLock", "Lock"}
    /\ eval.writer = "none"
    /\ Instr(g)[1] = "Lock" => eval.readers = {}
    /\ eval' = [eval EXCEPT
                  !.at[g] = @ + 1,
                  !.readers = IF Instr(g)[1] = "RLock" THEN @ \cup {g} ELSE @,
                  !.writer = IF Instr(g)[1] = "Lock" THEN g ELSE @]
    /\ UNCHANGED <<hubVars, store, patch>>

\* clientsMutex.RUnlock() and clientsMutex.Unlock()
Release(g) ==
    /\ Instr(g)[1] \in {"RUnlock", "Unlock"}
    /\ eval' = [eval EXCEPT
                  !.at[g] = @ + 1,
                  !.readers = @ \ {g},
                  !.writer = IF Instr(g)[1] = "Unlock" THEN "none" ELSE @]
    /\ UNCHANGED <<hubVars, store, patch>>

\* a read or a write of s.clients or of Client.LastActivity
Access(g) ==
    /\ Instr(g)[1] \in {"read", "write"}
    /\ eval' = [eval EXCEPT
                  !.at[g] = @ + 1,
                  !.registered = IF Instr(g) = <<"write", "clients">>
                                 THEN g = "AddClient" ELSE @,
                  !.targets = IF g = "BroadcastEvent" THEN eval.registered ELSE @,
                  !.inactive = IF g = "cleanup"
                               THEN eval.registered /\ (Instr(g)[2] = "clients" \/ eval.old)
                               ELSE @,
                  !.old = IF g = "ProcessMessages" THEN FALSE ELSE @]
    /\ UNCHANGED <<hubVars, store, patch>>

\* the early returns: AddClient at capacity, BroadcastEvent without a
\* client to notify, cleanupInactiveClients without an inactive client;
\* and the loop of ProcessMessages
Branch(g) ==
    /\ Instr(g)[1] \in {"if", "loop"}
    /\ \E go \in BOOLEAN :
          /\ Instr(g)[2] = "targets" => go = eval.targets
          /\ Instr(g)[2] = "inactive" => go = eval.inactive
          /\ eval' = [eval EXCEPT
                        !.at[g] = IF Instr(g)[1] = "loop" THEN 1
                                  ELSE IF go THEN @ + 1 ELSE Len(Body(g)) + 1]
    /\ UNCHANGED <<hubVars, store, patch>>

\* client.ProcessMessages() starts the goroutine
Go(g) ==
    /\ Instr(g)[1] = "go"
    /\ eval' = [eval EXCEPT !.at[g] = @ + 1, !.at["ProcessMessages"] = 1]
    /\ UNCHANGED <<hubVars, store, patch>>

\* Client.Send: an error when the context is cancelled or MessageChan is
\* full, else the frame is put into MessageChan
SendCall(g) ==
    /\ Instr(g)[1] = "Send"
    /\ eval' = [eval EXCEPT
                  !.at[g] = @ + 1,
                  !.queue = IF eval.closed \/ @ >= MaxBuffer THEN @ ELSE @ + 1]
    /\ UNCHANGED <<hubVars, store, patch>>

\* Client.Close in RemoveClient, for a client that is in the table
CloseCall(g) ==
    /\ Instr(g)[1] = "Close"
    /\ eval' = [eval EXCEPT !.at[g] = @ + 1,
                            !.closed = @ \/ eval.inactive]
    /\ UNCHANGED <<hubVars, store, patch>>

\* the select of ProcessMessages: a frame is received, or the goroutine
\* returns on the cancelled context
TaskReceive(g) ==
    /\ Instr(g)[1] = "receive"
    /\ \/ eval.queue > 0
          /\ eval' = [eval EXCEPT !.at[g] = @ + 1, !.queue = @ - 1]
       \/ eval.closed
          /\ eval' = [eval EXCEPT !.at[g] = Len(Body(g)) + 1]
    /\ UNCHANGED <<hubVars, store, patch>>

\* c.W.Write and Flush
TaskWrite(g) ==
    /\ Instr(g)[1] = "Write"
    /\ eval' = [eval EXCEPT !.at[g] = @ + 1]
    /\ UNCHANGED <<hubVars, store, patch>>

\* more than the inactivity threshold passes since the latest write of
\* LastActivity
Ageing ==
    /\ eval.registered /\ ~eval.old
    /\ eval' = [eval EXCEPT !.old = TRUE]
    /\ UNCHANGED <<hubVars, store, patch>>

NextLock ==
    \/ \E g \in Goroutines :
          \/ Acquire(g) \/ Release(g) \/ Access(g) \/ Branch(g) \/ Go(g)
          \/ SendCall(g) \/ CloseCall(g) \/ TaskReceive(g) \/ TaskWrite(g)
    \/ Ageing

SpecLock == InitLock /\ [][NextLock]_vars

TypeOK ==
    /\ clients \subseteq Ids
    /\ \A c \in Ids : Len(MessageChan[c]) <= MaxBuffer

(***************************************************************************)
(* Properties of delivery                                                  *)
(***************************************************************************)
IsPrefix(s, t) == Len(s) <= Len(t) /\ SubSeq(t, 1, Len(s)) = s

IsFrame(frame) == frame.event # "comment"
IsUpdate(frame) == frame.event = "update"

\* the frames written to the sink of c, keep-alive comments left out
Written(c) == SelectSeq(sink[c], IsFrame)

\* the frames of c that wait to be written: the one the delivery task holds
\* and the ones in the buffer
Pending(c) == SelectSeq(task[c].msg, IsFrame) \o MessageChan[c]

QueueFull == "client message queue full"

\* C3: the frames written to the sink of a subscriber are, in order and
\* without a gap, the first of the frames that Send accepted into its buffer,
\* and while the delivery task runs the remaining accepted frames wait in
\* acceptance order: a frame accepted before another is written before it.
C3_PerSubscriberFifo ==
    \A c \in Ids :
        /\ IsPrefix(Written(c), accepted[c])
        /\ task[c].pc \in {"select", "write"} =>
              Written(c) \o Pending(c) = accepted[c]

\* two accepted frames and a keep-alive have been written to one sink
C3_Witness ==
    \E c \in Ids :
        /\ Len(Written(c)) >= 2
        /\ Len(sink[c]) > Len(Written(c))
        /\ Len(accepted[c]) > Len(Written(c))

\* a step in which Client.Send is called on c
SendStep(c) == Len(offered'[c]) > Len(offered[c])

UpdatesDue(c) ==
    broadcasts - add[c].joined
        - (IF bcast["api"].pc = "send" /\ c \in bcast["api"].targets THEN 1 ELSE 0)

InBroadcastOrder(frames) ==
    \A i, j \in 1..Len(frames) : i < j => frames[i].data.value.n < frames[j].data.value.n

\* no Send to c was refused, and its delivery task has lost no frame
KeepsUp(c) ==
    /\ accepted[c] = offered[c]
    /\ task[c].pc \in {"select", "write"}

\* C5: in the running process no Send of a broadcast ever waits, whatever
\* the state of the buffers and sinks, and a BroadcastEvent call whose send
\* loop is over returns; a
\* subscriber in the table whose delivery task keeps up has, written or about
\* to be written, every update frame broadcast since it joined, in broadcast
\* order; the sink of a stalled subscriber and its buffer never hold more
\* frames than the capacity of the buffer.
C5_SlowSubscriberIsolation ==
    /\ \A c \in Ids :
          (~crashed /\ bcast["api"].pc = "send" /\ c \in bcast["api"].targets) =>
              ENABLED ApiSend(c)
    /\ (~crashed /\ bcast["api"].pc = "send" /\ bcast["api"].targets = {}) =>
          ENABLED ApiReturn
    /\ \A c \in clients :
          /\ Len(SelectSeq(offered[c], IsUpdate)) = UpdatesDue(c)
          /\ KeepsUp(c) =>
                /\ Len(SelectSeq(Written(c) \o Pending(c), IsUpdate)) = UpdatesDue(c)
                /\ InBroadcastOrder(SelectSeq(Written(c) \o Pending(c), IsUpdate))
    /\ \A c \in Ids :
          stalled[c] => Len(sink[c]) <= MaxBuffer /\ Len(MessageChan[c]) <= MaxBuffer

\* the stalled subscriber has a full buffer and has lost a frame, and every
\* broadcast frame has been written to the sink of the other subscriber
C5_Witness ==
    \E c, d \in clients :
        /\ stalled[c] /\ ~stalled[d]
        /\ Len(MessageChan[c]) = MaxBuffer
        /\ Len(offered[c]) > Len(accepted[c])
        /\ broadcasts = MaxBroadcasts
        /\ Len(SelectSeq(sink[d], IsUpdate)) = MaxBroadcasts

\* C21: for every subscriber the connected frame carrying its id is the first
\* frame accepted into its buffer; no update (or init, initial_data) frame,
\* also of a BroadcastEvent running next to AddClient, is enqueued before it
C21_ConnectedFirst ==
    \A c \in Ids : accepted[c] # <<>> => accepted[c][1] = ConnectedFrame(c)

(***************************************************************************)
(* Properties of the update                                                *)
(***************************************************************************)
\* C1: when a PATCH of value v at path P, made after the tree was
\* initialized and the subscriber with filter P connected, has been answered
\* with 200, exactly one update frame has been enqueued for the subscriber,
\* and its payload has path P and value v.
C1_ExactPathUpdate ==
    (patch.pc = "200" /\ patch.ready) =>
        LET updates == SelectSeq(accepted[Subscriber], IsUpdate)
        IN /\ Len(updates) = 1
           /\ updates[1].data.path = patch.path
           /\ updates[1].data.value = patch.body

\* C11: after Set(T, P, v) has succeeded on the store, Get(T, P) succeeds and
\* returns a value equal to v.
C11_SetGetRoundTrip ==
    patch.pc = "set" =>
        LET g == KVStoreGet(store, patch.path)
        IN g.err = "nil" /\ g.v = patch.body

(***************************************************************************)
(* Properties of matching                                                  *)
(***************************************************************************)
\* the segments of a path, the root path having none
Segments(path) == IF path = Root THEN <<>> ELSE FindAllSegments(path, 1)

IsIndexSegment(segment) ==
    /\ Len(segment) >= 3
    /\ segment[1] = "[" /\ segment[Len(segment)] = "]"
    /\ \A i \in 2..(Len(segment) - 1) : segment[i] \in Digits

\* p is a structural ancestor of q: fewer segments, all of them the first
\* segments of q
IsAncestor(p, q) ==
    Len(Segments(p)) < Len(Segments(q)) /\ IsPrefix(Segments(p), Segments(q))

\* p is the pattern with each [*] replaced by some decimal index
IsInstance(p, pattern) ==
    /\ Contains(pattern, Wild)
    /\ Len(Segments(p)) = Len(Segments(pattern))
    /\ \A i \in 1..Len(Segments(p)) :
          \/ Segments(p)[i] = Segments(pattern)[i]
          \/ Segments(pattern)[i] = Wild /\ IsIndexSegment(Segments(p)[i])

Related(p, filterPath) ==
    \/ p = filterPath
    \/ IsAncestor(p, filterPath)
    \/ IsAncestor(filterPath, p)
    \/ IsInstance(p, filterPath)

\* a mapping that has every key of the conditions with the value asked for
Satisfies(item, conditions) ==
    /\ IsMap(item)
    /\ \A i \in 1..Len(conditions) :
          /\ HasKey(item, conditions[i].Key)
          /\ FmtV(item.m[conditions[i].Key]) = conditions[i].Value

Violates(value, conditions) ==
    \/ IsArr(value) /\ \E i \in 1..Len(value.a) : ~Satisfies(value.a[i], conditions)
    \/ IsMap(value) /\ ~Satisfies(value, conditions)

\* C2: the value of a frame enqueued for a subscriber whose filter carries
\* predicates never violates them.
C2_NoViolatingValue ==
    (eval.pc = "delivered" /\ eval.frame # <<>>) =>
        \A i \in 1..Len(eval.filters) :
            Len(eval.filters[i].Conditions) > 0 =>
                ~Violates(eval.frame[1].data.value, eval.filters[i].Conditions)

\* C8: the subscriber created without a filter expression is notified of
\* every change.
C8_DefaultFilterMatchesAll ==
    (eval.pc # "input" /\ eval.filters = NewClientFilters(<<>>)) =>
        eval.notify /\ eval.isMatch

\* C9: a filter without predicates matches every path that is equal to its
\* path, a structural ancestor or descendant of it, or an instance of its
\* wildcard pattern.
C9_FilterEquivalence ==
    (/\ eval.pc # "input"
     /\ eval.filters[1].Conditions = <<>>
     /\ Related(eval.path, eval.filters[1].Path)) => eval.isMatch

\* C10: a subscriber is notified only of a path related to one of its
\* filters.
C10_NoUnrelatedDelivery ==
    (eval.pc # "input" /\ eval.notify) =>
        \E i \in 1..Len(eval.filters) : Related(eval.path, eval.filters[i].Path)

\* the case of a predicate filter F[k=v] and a change at exactly F whose
\* value is a sequence of mappings, one of which satisfies k=v
PredicateCase ==
    /\ Len(eval.filters) = 1
    /\ Len(eval.filters[1].Conditions) > 0
    /\ eval.path = eval.filters[1].Path
    /\ IsArr(eval.value)
    /\ \A i \in 1..Len(eval.value.a) : IsMap(eval.value.a[i])
    /\ \E i \in 1..Len(eval.value.a) :
          Satisfies(eval.value.a[i], eval.filters[1].Conditions)

\* the elements of a sequence that satisfy the conditions, in source order
Satisfying(value, conditions) ==
    LET keep(item) == Satisfies(item, conditions)
    IN Arr(SelectSeq(value.a, keep))

\* C22: a subscriber with filter F[k=v] gets, for a change at exactly F whose
\* value is a sequence of mappings with an element satisfying k=v, exactly
\* one frame; its value is the sub-sequence of the satisfying elements in
\* source order and its envelope has key_value_filtered = true
C22_PredicateFilteredUpdate ==
    PredicateCase =>
        /\ eval.pc # "input" => eval.notify
        /\ eval.pc = "delivered" =>
              /\ Len(eval.frame) = 1
              /\ eval.frame[1].data.value =
                    Satisfying(eval.value, eval.filters[1].Conditions)
              /\ eval.frame[1].data.key_value_filtered

\* C22 for the filters whose path does not begin with .data.
C22_OutsideData ==
    ~HasPrefix(eval.filters[1].Path, DataPrefix) => C22_PredicateFilteredUpdate

\* the value found by following segments (.name or [i]) inside a value
RECURSIVE ValueAt(_, _)
ValueAt(value, segments) ==
    IF segments = <<>> THEN [ok |-> TRUE, v |-> value]
    ELSE LET segment == Head(segments)
         IN IF IsIndexSegment(segment)
            THEN LET i == Atoi(SubSeq(segment, 2, Len(segment) - 1))
                 IN IF IsArr(value) /\ i < Len(value.a)
                    THEN ValueAt(value.a[i + 1], Tail(segments))
                    ELSE [ok |-> FALSE]
            ELSE IF Head(segment) = "." /\ HasKey(value, Tail(segment))
                 THEN ValueAt(value.m[Tail(segment)], Tail(segments))
                 ELSE [ok |-> FALSE]

\* the segments of filter path f that come after those of its ancestor p
Suffix(p, f) == SubSeq(Segments(f), Len(Segments(p)) + 1, Len(Segments(f)))

\* C23: when the path of the change is a strict structural ancestor of the
\* subscriber's filter path (the root included), the frame enqueued for the
\* subscriber carries only the sub-value found at the suffix of the filter
\* path inside the value of the change, not the whole value
C23_AncestorNarrowing ==
    (/\ eval.pc = "delivered" /\ eval.frame # <<>>
     /\ Len(eval.filters) = 1
     /\ eval.filters[1].Conditions = <<>>
     /\ IsAncestor(eval.path, eval.filters[1].Path)
     /\ ValueAt(eval.value, Suffix(eval.path, eval.filters[1].Path)).ok) =>
        eval.frame[1].data.value =
            ValueAt(eval.value, Suffix(eval.path, eval.filters[1].Path)).v

(***************************************************************************)
(* Properties of parsing                                                   *)
(***************************************************************************)
\* the segment that a path component stands for
SegmentOf(component) ==
    IF component = Wild THEN [Type |-> "Wildcard", Value |-> <<>>, Index |-> -1]
    ELSE IF Head(component) = "["
         THEN [Type |-> "Index", Value |-> <<>>,
               Index |-> Atoi(SubSeq(component, 2, Len(component) - 1))]
         ELSE [Type |-> "Property", Value |-> Tail(component), Index |-> -1]

\* C12: Parse succeeds on a path made of a leading property and further
\* properties, indexes and wildcards, and returns the Root segment followed by
\* one segment per component, in order; "" and "." give the Root segment alone.
C12_ParseSegments ==
    eval.pc = "parsed" =>
        /\ eval.parsed.err = "nil"
        /\ eval.parsed.segments =
              <<RootSegment>> \o
              [i \in 1..Len(eval.components) |-> SegmentOf(eval.components[i])]

\* C26: Parse rejects every string outside the grammar with an error and
\* returns no segments: a path without its leading dot, a path with an
\* unbalanced bracket, and a path with an index that is neither digits nor *
C26_ParseRejects ==
    eval.pc = "parsed" => eval.parsed.err # "nil"

(***************************************************************************)
(* Properties of the store                                                 *)
(***************************************************************************)
WildcardFree(path) == ~Contains(path, Wild)

\* the final segment of a path
FinalSegment(path) == Last(Segments(path))

\* the sequence that holds the final index segment of a path
HolderOf(tree, path) ==
    ValueAt(tree, SubSeq(Segments(path), 1, Len(Segments(path)) - 1)).v

\* C24: after a successful Delete at a wildcard-free path where a value was,
\* Get at that path fails with PathNotFound when the final segment is a
\* property, and returns null with the length of the sequence unchanged
\* when it is an index; Delete at a path that does not resolve fails with
\* PathNotFound and leaves the tree unchanged
C24_DeleteLaw ==
    (eval.op = "Delete" /\ eval.path \notin {<<>>, Root} /\ WildcardFree(eval.path)) =>
        LET existed == ValueAt(eval.before, Segments(eval.path)).ok
            g == KVStoreGet(store, eval.path)
        IN /\ (existed /\ eval.err = "nil") =>
                 IF IsIndexSegment(FinalSegment(eval.path))
                 THEN /\ g.err = "nil" /\ g.v = Null
                      /\ Len(HolderOf(store, eval.path).a) =
                            Len(HolderOf(eval.before, eval.path).a)
                 ELSE g.err = "ErrPathNotFound"
           /\ ~existed => eval.err = "ErrPathNotFound" /\ store = eval.before

\* C27: in every reachable state of the store the root is a mapping; Set
\* with the path . (or the empty path) and a value that is not a mapping
\* fails with an error and leaves the tree unchanged
C27_RootStaysMapping ==
    /\ IsMap(store)
    /\ (eval.op = "Set" /\ eval.path \in {<<>>, Root} /\ ~IsMap(eval.value)) =>
          eval.err # "nil" /\ store = eval.before

\* a Set of a string at the root was refused on a tree that earlier calls
\* had filled and changed
C27_Witness ==
    /\ eval.op = "Set" /\ eval.path = Root /\ eval.value = Str(Away)
    /\ eval.err = "value must be a map when setting root"
    /\ store \notin StoreTrees \cup {Map(<<>>)}

\* C28: Get, Set and Delete on a path with a [*] segment return an error,
\* and Set and Delete leave the tree exactly as it was: no container on the
\* way to the wildcard is created or changed
C28_WildcardsRejected ==
    (eval.op \in {"Get", "Set", "Delete"} /\ Contains(eval.path, Wild)) =>
        eval.err # "nil" /\ store = eval.before

\* C29: a value returned by Get (Get at the root included) or passed to
\* Initialize or Set is not changed by a later Set, Delete or Initialize on
\* the store: the store shares no mutable sub-tree with it
C29_IsolatedSnapshots == eval.held.now = eval.held.seen

\* the position of the [*] segment of a pattern
WildAt(path) == CHOOSE w \in 1..Len(Segments(path)) : Segments(path)[w] = Wild

\* the indices of the sequence at the wildcard position of the pattern that
\* resolve the remaining segments
Resolving(tree, path) ==
    LET segments == Segments(path)
        holder == ValueAt(tree, SubSeq(segments, 1, WildAt(path) - 1))
        rest == SubSeq(segments, WildAt(path) + 1, Len(segments))
    IN IF holder.ok /\ IsArr(holder.v)
       THEN {i \in 0..(Len(holder.v.a) - 1) : ValueAt(holder.v.a[i + 1], rest).ok}
       ELSE {}

\* the pattern with its [*] replaced by the decimal index i
Realized(path, i) ==
    LET segments == Segments(path)
    IN Concat(SubSeq(segments, 1, WildAt(path) - 1)) \o Idx(i)
       \o Concat(SubSeq(segments, WildAt(path) + 1, Len(segments)))

\* C25: for a path with a [*] segment over a sequence of n elements, Match
\* returns exactly one entry for each index 0..n-1 that resolves the
\* remaining segments, the path of each entry is the pattern with [*]
\* replaced by the decimal index, and the paths are pairwise distinct
C25_WildcardMatch ==
    (eval.op = "FindMatches" /\ Contains(eval.path, Wild)) =>
        /\ eval.err = "nil"
        /\ Len(eval.result) = Cardinality(Resolving(store, eval.path))
        /\ \A i \in Resolving(store, eval.path) :
              \E j \in 1..Len(eval.result) :
                  eval.result[j].Path = Realized(eval.path, i)
        /\ \A j, k \in 1..Len(eval.result) :
              eval.result[j].Path = eval.result[k].Path => j = k

(***************************************************************************)
(* Properties of the database-backed store                                 *)
(***************************************************************************)
\* both callers have returned without an error from Set calls on different
\* paths below the root
BothSet(w, o) ==
    /\ w # o
    /\ eval.set[w].pc = "returned" /\ eval.set[w].err = "nil"
    /\ eval.set[o].pc = "returned" /\ eval.set[o].err = "nil"
    /\ eval.set[w].path # eval.set[o].path
    /\ eval.set[w].path # Root /\ eval.set[o].path # Root

\* the document holds the value that w wrote, where the store reads it
Holds(w) ==
    MatcherGet(store, eval.set[w].path) = [err |-> "nil", v |-> eval.set[w].value]

\* C30: after two concurrent Set calls on different paths of the document
\* have both returned successfully, the document contains both written
\* values: no successful Set is lost
C30_NoLostSet ==
    \A w, o \in Writers : BothSet(w, o) => Holds(w) /\ Holds(o)

\* C30 for callers that do not overlap
C30_OneAfterTheOther == ~eval.overlapped => C30_NoLostSet

(***************************************************************************)
(* Properties of concurrent updates                                        *)
(***************************************************************************)
\* both requests have been answered 200 and have broadcast
BothBroadcast ==
    /\ \A r \in Requests : eval.req[r].pc = "200"
    /\ Len(eval.applied) = 2 /\ Len(eval.frames) = 2

\* C37: for two concurrent PATCH requests on one path, the update frames
\* are put into the buffer of a subscriber in the order in which the store
\* applied the writes, each frame carries the value that its own request
\* wrote, and the last frame carries the final value of the store
C37_BroadcastFollowsStore ==
    BothBroadcast =>
        /\ \A i \in 1..2 : eval.frames[i].req = eval.applied[i]
        /\ \A i \in 1..2 :
              eval.frames[i].frame.data.value = eval.req[eval.frames[i].req].body
        /\ eval.frames[2].frame.data.value = KVStoreGet(store, eval.path).v

\* the same for requests that do not run at the same time
C37_OneAfterTheOther == ~eval.overlapped => C37_BroadcastFollowsStore

HoldsMutex(g) == g \in eval.readers \/ eval.writer = g

\* C34: clientsMutex is never held by the goroutine that calls Client.Send:
\* in AddClient (the connected event and the initial snapshot) and in
\* BroadcastEvent every Send is called with the lock released
C34_NoLockAcrossSend ==
    \A g \in Goroutines : Instr(g)[1] = "Send" => ~HoldsMutex(g)

\* BroadcastEvent is about to send to the client of its snapshot while the
\* cleanup goroutine holds the lock for its RemoveClient
C34_Witness ==
    /\ Instr("BroadcastEvent") = <<"Send", "update">>
    /\ eval.targets
    /\ eval.writer = "cleanup"
    /\ ~HoldsMutex("BroadcastEvent")

\* goroutine g is about to access the field of the client; the cleanup
\* goroutine reads the fields of the clients it finds in the table
Touches(g, field) ==
    /\ Instr(g)[1] \in {"read", "write"}
    /\ Instr(g)[2] = field
    /\ (g = "cleanup" /\ field = "LastActivity") => eval.registered

\* two goroutines are about to access the field, one of them to write it,
\* and they hold no common lock that keeps one of them out
Races(field) ==
    \E g, h \in Goroutines :
        /\ g # h
        /\ Touches(g, field) /\ Touches(h, field)
        /\ Instr(g)[1] = "write"

\* C38: LastActivity of a client is never written by its delivery task at
\* the time the cleanup sweep reads it: the accesses are ordered by a
\* common lock or made by the goroutine that owns the field
C38_LastActivityRaceFree == ~Races("LastActivity")

\* the same for the table, which clientsMutex does protect
C38_TableRaceFree == ~Races("clients")

(***************************************************************************)
(* Properties of the interleaving of Send with Close                       *)
(***************************************************************************)
\* C36: under every interleaving of BroadcastEvent or AddClient with
\* RemoveClient, the reaper or Shutdown, no Client.Send reaches its insert
\* into a MessageChan that Client.Close has closed (the insert into a
\* closed channel is a panic; no other step of the hub specification ends
\* the process, its broadcast values being numbers)
C36_NoEnqueueOnClosed == ~crashed

(***************************************************************************)
(* Properties of the initial snapshot                                      *)
(***************************************************************************)
\* C33: during one AddClient with sendInitialData = true, whatever the list
\* of filters, no two initial_data frames sent to the subscriber carry the
\* same path
C33_SnapshotDeduplicated ==
    \A i, j \in 1..Len(eval.frames) :
        eval.frames[i].data.path = eval.frames[j].data.path => i = j

\* the same, for subscribers without a root filter
C33_NoRootFilter ==
    (\A k \in 1..Len(eval.filters) : eval.filters[k].Path # Root)
        => C33_SnapshotDeduplicated

(***************************************************************************)
(* Properties of the change feed                                           *)
(***************************************************************************)
\* C31: every change of the document committed after the hub is constructed
\* eventually makes the hub's callback be called with (".", data), whatever
\* the interleaving of the feed goroutine with SetChangeListener (a feed
\* that ended with an error is the matter of C32)
C31_ChangeFeedBridge ==
    \A n \in 1..MaxCommits :
        (eval.due >= n) ~>
            (\/ eval.failed
             \/ Len(eval.notified) >= n /\ \A i \in 1..Len(eval.notified) :
                                               eval.notified[i].path = Root)

\* C32: after the change feed failed (Watch could not be opened or the
\* cursor ended with an error) the feed is eventually established again
C32_ChangeFeedRecovery == eval.failed ~> (eval.feed = "watching")

(***************************************************************************)
(* Properties of the lifecycle                                             *)
(***************************************************************************)
\* the delivery task of c has started and has not exited
TaskLive(c) == task[c].pc \in {"select", "write"}

\* AddClient has put c into the table at some time
Registered(c) == add[c].pc \in {"started", "done"}

\* C13: in every state a subscriber is in the table exactly if its delivery
\* task is live.
C13_TableTaskInvariant == \A c \in Ids : c \in clients <=> TaskLive(c)

\* this step is a call of RemoveClient with the id c
RemoveStep(c) == calls'[c].RemoveClient = calls[c].RemoveClient + 1

\* C14: a call of RemoveClient with an id that is not in the table changes
\* nothing of the hub and of the subscriber, whoever removed the subscriber
\* before; no subscriber is closed twice, and a subscriber that has left
\* the table has been closed once: its token is cancelled and its buffer
\* closed.
C14_RemovalIdempotent ==
    /\ [](\A c \in Ids :
            /\ calls[c].Close <= 1
            /\ (Registered(c) /\ c \notin clients) =>
                   calls[c].Close = 1 /\ ctxDone[c] /\ chanClosed[c])
    /\ [][\A c \in Ids :
            (RemoveStep(c) /\ c \notin clients) =>
                /\ calls'[c].Close = calls[c].Close
                /\ UNCHANGED <<clients, ctxDone, chanClosed, MessageChan, task,
                               sink, sendErr, LastActivity>>]_vars

\* RemoveClient has been called twice with the id of a subscriber, and
\* Shutdown has closed what was left in the table
C14_Witness ==
    \E c \in Ids :
        /\ calls[c].RemoveClient = 2
        /\ calls[c].Close = 1
        /\ hub.shutdown = "returned"

\* C15: the registration of AddClient puts the subscriber into the table,
\* which grows by one; once the request context of a subscriber has ended,
\* the subscriber is out of the table in the end (for the one subscriber
\* of this specification: the table is as large as before).
C15_DisconnectReaps ==
    /\ [][\A c \in Ids :
            (add[c].pc = "checked" /\ add'[c].pc = "started") =>
                /\ c \in clients'
                /\ Cardinality(clients') = Cardinality(clients) + 1]_vars
    /\ \A c \in {Subscriber} : (c \in hub.requestDone) ~> (c \notin clients)

\* the request of the subscriber ended while the hub ran, and the observer
\* goroutine removed the subscriber
C15_Witness ==
    /\ Subscriber \in hub.requestDone
    /\ add[Subscriber].gone
    /\ Subscriber \notin clients
    /\ calls[Subscriber] = [Close |-> 1, RemoveClient |-> 1]
    /\ hub.shutdown = "idle"

\* C16: when a write to the sink of a subscriber has failed, the token of
\* the subscriber is cancelled, and the subscriber is out of the table in
\* the end.
C16_WriteFailureRemoves ==
    /\ [](\A c \in Ids : task[c].pc = "exited" => ctxDone[c])
    /\ \A c \in {Subscriber} :
          (task[c].pc = "exited" /\ c \in clients) ~> (c \notin clients)

\* C17: a call of AddClient that starts once Shutdown has begun fails with
\* Unavailable, and no subscriber is registered from then on.
C17_NoAddAfterShutdown ==
    /\ [][\A c \in Ids :
            (hub.shutdown # "idle" /\ add[c].pc = "idle" /\ add'[c].pc # "idle") =>
                add'[c].pc = "Unavailable"]_vars
    /\ [][hub.shutdown # "idle" => clients' \subseteq clients]_vars

\* the cleanup goroutine begins a sweep, ends a sweep
SweepBegins == hub.cleanup.pc = "select" /\ hub'.cleanup.pc = "remove"
SweepEnds == hub.cleanup.pc = "remove" /\ hub'.cleanup.pc = "select"

\* C18: when Shutdown returns the table is empty and every subscriber that
\* was in the table has its token cancelled and its buffer closed; after
\* that the cleanup goroutine begins no sweep.
C18_ShutdownTearsDown ==
    /\ [][(hub.shutdown = "lock" /\ hub'.shutdown = "returned") =>
            /\ clients' = {}
            /\ \A c \in clients : ctxDone'[c] /\ chanClosed'[c]]_vars
    /\ [][hub.shutdown = "returned" => ~SweepBegins]_vars

\* C19: a sweep collects the subscribers of the table whose LastActivity is
\* older than the threshold at that time, and when the sweep ends each of
\* them is out of the table, with its token cancelled and its buffer closed
\* (once).
C19_ReaperRemovesInactive ==
    /\ [][SweepBegins =>
            hub'.cleanup.swept = {c \in clients : LastActivity[c] = "old"}]_vars
    /\ [][SweepEnds =>
            \A c \in hub.cleanup.swept :
                /\ c \notin clients'
                /\ ctxDone'[c] /\ chanClosed'[c]
                /\ calls'[c].Close = 1]_vars

\* a sweep that collected both subscribers has made its removals, and the
\* cleanup goroutine itself removed one of them at least
C19_Witness ==
    /\ hub.cleanup.pc = "remove"
    /\ hub.cleanup.inactiveClients = {}
    /\ Cardinality(hub.cleanup.swept) = 2
    /\ \E c \in hub.cleanup.swept :
          calls[c].RemoveClient = 1 /\ ~add[c].gone /\ hub.shutdown = "idle"

\* the cleanup sweep removes subscriber c from the table
SweepRemoves(c) ==
    /\ hub.cleanup.pc = "remove"
    /\ c \in hub.cleanup.inactiveClients
    /\ c \notin hub'.cleanup.inactiveClients
    /\ c \in clients /\ c \notin clients'

\* C39: at the moment a sweep removes a subscriber from the table, the
\* LastActivity of the subscriber is older than the threshold: a subscriber
\* whose delivery task wrote a frame between the collection and the removal
\* is not removed
C39_RemovesOnlyInactive ==
    [][\A c \in Ids : SweepRemoves(c) => LastActivity[c] = "old"]_vars

\* the delivery task of c takes a frame or a keep-alive tick to write it
TaskBeginsWrite(c) == task[c].pc = "select" /\ task'[c].pc = "write"

\* C20: once the token of a subscriber is cancelled or its buffer closed,
\* its delivery task takes no further frame or keep-alive to write it to the
\* sink (a write under way at that time may end), Send accepts no frame for
\* it, and it does not come back into the table.
C20_OneWayLifecycle ==
    [][\A c \in Ids :
          (ctxDone[c] \/ chanClosed[c]) =>
              /\ ~TaskBeginsWrite(c)
              /\ accepted'[c] = accepted[c]
              /\ c \in clients' => c \in clients]_vars

\* C35: once a registered subscriber is out of the table (removed by the
\* observer of its request, the reaper, RemoveClient or Shutdown), its
\* delivery task exits in the end, every write to the sink returning (the
\* task is gone as well when the process has died)
C35_DeliveryTaskExits ==
    \A c \in {Subscriber} :
        (Registered(c) /\ c \notin clients) ~> (task[c].pc = "exited" \/ crashed)

\* the subscriber was removed by the reaper while its request was live, and
\* its delivery task, having written the connected frame, has exited
C35_Witness ==
    /\ Registered(Subscriber) /\ Subscriber \notin clients
    /\ Subscriber \in hub.cleanup.swept
    /\ ~add[Subscriber].gone
    /\ sink[Subscriber] # <<>>
    /\ task[Subscriber].pc = "exited"
    /\ ~crashed

(***************************************************************************)
(* Properties of admission                                                 *)
(***************************************************************************)
\* C6: the subscriber table never holds more than maxClients entries.
C6_CapacityInvariant == Cardinality(clients) <= MaxClients

\* a step in which the AddClient call for c makes its capacity check
CheckStep(c) == add[c].pc = "idle" /\ add'[c].pc # "idle"

\* C7: an AddClient call that finds maxClients subscribers (or more) in the
\* table returns the at-capacity error; that call changes neither the table
\* nor any client, starts no delivery task, and does nothing afterwards.
C7_CapacityRejection ==
    /\ [][\A c \in Ids :
            (CheckStep(c) /\ Cardinality(clients) >= MaxClients) =>
                /\ add'[c].pc = "ErrHandlerTimeout"
                /\ UNCHANGED <<clients, filtersOf, task, MessageChan, offered>>]_vars
    /\ [][\A c \in Ids :
            add[c].pc = "ErrHandlerTimeout" => add'[c] = add[c]]_vars
    /\ [](\A c \in Ids :
            add[c].pc = "ErrHandlerTimeout" =>
                /\ c \notin clients
                /\ task[c] = IdleTask
                /\ offered[c] = <<>>)

\* a call was rejected while the table holds maxClients subscribers
C7_Witness ==
    \E c \in Ids :
        /\ add[c].pc = "ErrHandlerTimeout"
        /\ add[c].seen = MaxClients
        /\ Cardinality(clients) = MaxClients

====
